---------------------------- MODULE Spec2Model ----------------------------
(***************************************************************************)
(* Model of the SOL/USDC trading bot: the trade decision                   *)
(* (trading.rs should_make_trade / should_make_trade_simple), the retry    *)
(* primitive (service.rs retry_as_exponential_back_off), the decision      *)
(* cycle (main.rs execute_single_trade, trading.rs check_and_trade), the   *)
(* rehydration of its state (trading.rs load_from_firestore), the swap     *)
(* (jupiter.rs execute_swap) and the tasks spawned by main.rs              *)
(* trigger_trade.                                                          *)
(*                                                                         *)
(* Several specifications share the module.  Each one moves only its own     *)
(* variables and leaves the others at their initial values:                *)
(*   SpecDecision  the two decision functions applied to drawn inputs      *)
(*   SpecRetry     one call of retry_as_exponential_back_off               *)
(*   Spec          a sequence of decision cycles over one store            *)
(*   SpecRehydrate the rehydration of a TradingState from a drawn store    *)
(*   SpecSwap      one trade decision and its execute_swap                 *)
(*   SpecConcurrent the tasks spawned by concurrent requests to /trigger   *)
(*   SpecSettle    the settlement of a confirmed swap on drawn balances    *)
(*                                                                         *)
(* Representation.  Option<T> is a sequence of length 0 (None) or 1        *)
(* (Some).  A Decimal price is an integer number of price units; the       *)
(* factor dec!(1.01) is the exact ratio ThresholdNum / ThresholdDen, so    *)
(* "price >= last * 1.01" is compared without rounding, as rust_decimal    *)
(* does for these magnitudes.                                              *)
(***************************************************************************)
EXTENDS Integers, Sequences, FiniteSets, TLC

VARIABLES
    \* ---- SpecDecision: inputs and results of the decision functions
    d_position,        \* position: &Position
    d_last_trade_price,\* state.last_trade_price: Option<Decimal>
    d_sol_price,       \* sol_price: Decimal
    d_trend,           \* _trend: &PriceTrend (trend_1h only; the rest is unused too)
    d_trade,           \* Option<bool>: result of should_make_trade
    d_simple,          \* Option<bool>: result of should_make_trade_simple
    \* ---- SpecRetry: one call of retry_as_exponential_back_off
    r_name,            \* operation_name
    r_max_retries,     \* max_retries: u32
    r_initial_delay,   \* initial_delay_ms
    r_timeout,         \* timeout_duration.is_some()
    r_pc,              \* "loop" | "await" | "sleep" | "ok" | "err" | "panic"
    r_attempt,         \* the loop variable attempt
    r_retry_delay,     \* retry_delay, in ms
    r_calls,           \* number of times operation() was invoked
    r_sleeps,          \* the durations passed to sleep(), in order
    r_outcomes,        \* what each finished attempt produced, in order
    r_result,          \* Option<Result<T>>: the value the call returned
    \* ---- Spec: the store, the chain and one decision cycle at a time
    db_session,        \* Option: the latest document of trading_sessions
    db_profit,         \* Option: the latest document of profit_tracking
    db_price,          \* Option: the latest document of price_history
    held,              \* the asset the wallet holds on chain
    pc,                \* where execute_single_trade / check_and_trade stands
    cycles,            \* number of cycles started
    firestore,         \* state.firestore.is_some()
    state,             \* the TradingState of the running cycle
    state0,            \* its value when check_and_trade was entered
    sol_price_in_usdc, \* check_and_trade's locals
    usdc_price_in_sol,
    sol_balance_before,
    usdc_balance_before,
    trend_result,      \* "none" | "ok" | "err": what get_price_trend returned in this cycle
    swapped,           \* execute_swap returned Ok(signature) in this cycle
    result,            \* Option: what check_and_trade returned
    handed,            \* records handed to the persistence collaborator in this cycle
    sent,              \* the texts passed to LineClient::send_message in this cycle
    outcome,           \* Option: what execute_single_trade returned
    \* ---- SpecRehydrate: one rehydration of a TradingState from a drawn store
    h_reads,           \* Option: which of FirestoreDb::new and the three reads were Ok
    h_state,           \* Option: the TradingState handed to check_and_trade
    \* ---- SpecSwap: one trade decision of check_and_trade and its execute_swap
    s_pc,              \* "call" | "quote" | "build" | "decode" | "blockhash" | "sign" | "submit" | "ok" | "err"
    s_calls,           \* number of calls of execute_swap made by the cycle
    s_steps,           \* the steps of execute_swap that succeeded, in order
    s_tip,             \* the number of the chain's latest blockhash
    s_built,           \* Option: the transaction the provider built, and the tip then
    s_tried,           \* the decoders the payload was given to, in order
    s_fetched,         \* Option: recent_blockhash
    s_tx,              \* Option: the local variable transaction
    s_attempt,         \* the loop variable attempt of the retry around the submission
    s_submitted,       \* one entry per call of send_and_confirm_transaction
    s_executed,        \* the transactions the chain has executed, in order
    s_result,          \* Option: what execute_swap returned
    \* ---- SpecConcurrent: the tasks spawned by trigger_trade over one wallet
    c_pc,              \* per task: "idle" | "spawned" | "loaded" | "decide" | "swap" | "after" | "done"
    c_held,            \* the asset the wallet holds on chain
    c_store,           \* position_after of the latest trading session in the store
    c_position,        \* per task: state.position
    c_before,          \* per task: Option, the asset the balances read before the trade showed
    c_overlap,         \* a task read balances or submitted a swap inside another task's trade
    \* ---- SpecSettle: the settlement of one confirmed swap on drawn balances
    t_in,              \* the state, the price and the balances before and after the swap
    t_out,             \* Option: effective_price, profit_loss, the session and the state afterwards
    \* ---- SpecRequest: one HTTP request of get_quote or get_swap_transaction
    q_kind,            \* "quote" | "swap": which of the two requests
    q_pc,              \* "send" | "sleep" | "status" | "body" | "ok" | "err"
    q_attempt,         \* the loop variable attempt of the retry around send()
    q_retry_delay,     \* retry_delay, in milliseconds
    q_answers,         \* what each send() met: no response, or a response and its status
    q_sleeps,          \* the delays slept, in order
    q_result,          \* Option: what the request function returned
    \* ---- SpecAmount, SpecHistory, SpecPrices: one call of a function on drawn inputs
    f_in,              \* the inputs of the call
    f_out,             \* Option: what the call computed
    \* ---- SpecSteps: the network steps of one check_and_trade and their attempts
    k_step,            \* index in StepList of the step check_and_trade is at
    k_pc,              \* "attempt" | "sleep" | "returned" | "panic"
    k_attempt,         \* the loop variable attempt of the step's retry
    k_sends,           \* per step: the attempts made so far
    k_result           \* Option: "Ok(Some)" | "Ok(None)" | "Err", what check_and_trade returned

decVars   == <<d_position, d_last_trade_price, d_sol_price, d_trend, d_trade, d_simple>>
retryVars == <<r_name, r_max_retries, r_initial_delay, r_timeout, r_pc, r_attempt,
               r_retry_delay, r_calls, r_sleeps, r_outcomes, r_result>>

cycleVars == <<db_session, db_profit, db_price, held, pc, cycles, firestore, state,
               state0, sol_price_in_usdc, usdc_price_in_sol, sol_balance_before,
               usdc_balance_before, trend_result, swapped, result, handed, sent,
               outcome>>
rehVars   == <<h_reads, h_state>>
swapVars  == <<s_pc, s_calls, s_steps, s_tip, s_built, s_tried, s_fetched, s_tx, s_attempt,
               s_submitted, s_executed, s_result>>
concVars  == <<c_pc, c_held, c_store, c_position, c_before, c_overlap>>
settleVars == <<t_in, t_out>>
reqVars   == <<q_kind, q_pc, q_attempt, q_retry_delay, q_answers, q_sleeps, q_result>>
funVars   == <<f_in, f_out>>
stepVars  == <<k_step, k_pc, k_attempt, k_sends, k_result>>
auxVars   == <<rehVars, swapVars, concVars, settleVars, reqVars, funVars, stepVars>>
vars == <<decVars, retryVars, cycleVars, auxVars>>

None    == << >>
Some(v) == << v >>
IsSome(o) == o # None
Unwrap(o) == o[1]
Option(S) == {None} \cup {Some(v) : v \in S}

\* trading.rs:20  enum Position { SOL, USDC }
Position == {"SOL", "USDC"}

\* dec!(1.01), as the ratio ThresholdNum / ThresholdDen
ThresholdNum == 101
ThresholdDen == 100

-----------------------------------------------------------------------------
(* The trade decision *)

\* A mutation of the threshold comparison: strictly greater instead of >=.
ReachesThresholdStrict(sol_price, last_price) ==
    sol_price * ThresholdDen > last_price * ThresholdNum

\* |last_price| sol_price >= last_price * dec!(1.01)
ReachesThreshold(sol_price, last_price) ==
    sol_price * ThresholdDen >= last_price * ThresholdNum

\* A mutation of unwrap_or(false): an absent last trade price lets the trade fire.
MapOrFalseFiring(last_trade_price, sol_price) ==
    IF last_trade_price = None THEN TRUE
    ELSE ReachesThreshold(sol_price, Unwrap(last_trade_price))

\* state.last_trade_price.map(|last| sol_price >= last * dec!(1.01)).unwrap_or(false)
MapOrFalse(last_trade_price, sol_price) ==
    IF last_trade_price = None THEN FALSE
    ELSE ReachesThreshold(sol_price, Unwrap(last_trade_price))

\* A mutation of should_make_trade: a buy is held back while the one-hour
\* trend is falling.
should_make_trade_trending(position, trend, sol_price, last_trade_price) ==
    CASE position = "USDC" -> MapOrFalse(last_trade_price, sol_price)
                              /\ trend # Some("down")
      [] position = "SOL"  -> MapOrFalse(last_trade_price, sol_price)

\* trading.rs should_make_trade: the trend is received and not read.
should_make_trade(position, trend, sol_price, last_trade_price) ==
    CASE position = "USDC" -> MapOrFalse(last_trade_price, sol_price)
      [] position = "SOL"  -> MapOrFalse(last_trade_price, sol_price)

\* trading.rs should_make_trade_simple
should_make_trade_simple(position, sol_price, last_trade_price) ==
    CASE position = "USDC" -> MapOrFalse(last_trade_price, sol_price)
      [] position = "SOL"  -> MapOrFalse(last_trade_price, sol_price)

\* Prices the decision functions are applied to: a band around 100.00 and
\* 101.00 in hundredths (10000 = 100.00, 10099 = 100.99, 10100 = 101.00),
\* zero and two negative values.
DecSpan == 10
DecPrices == {-10100, -10000, 0} \cup ((10000 - DecSpan)..(10100 + DecSpan))

\* firestore.rs get_price_trend: trend_1h is absent or "up" / "down" / "stable"
Trends == Option({"up", "down", "stable"})

DecisionInit ==
    /\ d_position \in Position
    /\ d_last_trade_price \in Option(DecPrices)
    /\ d_sol_price \in DecPrices
    /\ d_trend \in Trends
    /\ d_trade = None
    /\ d_simple = None

DecisionIdle ==
    /\ d_position = "USDC"
    /\ d_last_trade_price = None
    /\ d_sol_price = 0
    /\ d_trend = None
    /\ d_trade = None
    /\ d_simple = None

\* check_and_trade, trading.rs:180: the call of should_make_trade
CallShouldMakeTrade ==
    /\ d_trade = None
    /\ d_trade' = Some(should_make_trade(d_position, d_trend, d_sol_price,
                                         d_last_trade_price))
    /\ UNCHANGED <<d_position, d_last_trade_price, d_sol_price, d_trend, d_simple>>
    /\ UNCHANGED <<retryVars, cycleVars, auxVars>>

\* check_and_trade, trading.rs:185 and 189: the call of should_make_trade_simple
CallShouldMakeTradeSimple ==
    /\ d_simple = None
    /\ d_simple' = Some(should_make_trade_simple(d_position, d_sol_price,
                                                 d_last_trade_price))
    /\ UNCHANGED <<d_position, d_last_trade_price, d_sol_price, d_trend, d_trade>>
    /\ UNCHANGED <<retryVars, cycleVars, auxVars>>

-----------------------------------------------------------------------------
(* retry_as_exponential_back_off, service.rs *)

\* The largest max_retries a call is made with (the callers pass 3).
MaxRetriesBound == 3

\* operation_name values of the three callers in jupiter.rs
OpNames == {"Quote request", "Send and confirm transaction"}
\* initial_delay_ms: the callers pass 500
InitialDelays == {1, 500}
\* What the operation can produce: Ok(value) or Err(e)
OpValues == {"v1", "v2"}
OpErrors == {"e1", "e2"}

OkOutcome(v)   == [kind |-> "ok", v |-> v]
ErrOutcome(e)  == [kind |-> "err", v |-> e]
TimeoutOutcome == [kind |-> "timeout", v |-> "elapsed"]

\* A mutation of the loop bound: one attempt more than max_retries.
InRangeInclusive(attempt, max_retries) == attempt <= max_retries

\* for attempt in 0..max_retries
InRange(attempt, max_retries) == attempt < max_retries

\* A mutation of the last-attempt test: the final failure sleeps once more
\* instead of returning.
HasRetryLeftAlways(attempt, max_retries) == attempt < max_retries

\* if attempt < max_retries - 1   (evaluated only inside the loop, so
\* max_retries >= 1 and the u32 subtraction cannot wrap)
HasRetryLeft(attempt, max_retries) == attempt < max_retries - 1

\* A mutation of the doubling: the delay stays constant.
DoubledNot(retry_delay) == retry_delay

\* retry_delay *= 2
Doubled(retry_delay) == retry_delay * 2

\* A mutation of the final error: it reports the index of the last attempt.
ExhaustedErrIndex(name, max_retries, e) ==
    [tag |-> "Err", kind |-> "error", name |-> name,
     attempts |-> max_retries - 1, last |-> e]

\* anyhow!("{} failed after {} attempts: {}", operation_name, max_retries, e)
ExhaustedErr(name, max_retries, e) ==
    [tag |-> "Err", kind |-> "error", name |-> name,
     attempts |-> max_retries, last |-> e]

\* anyhow!("{} after {} attempts", format!("{} timeout", operation_name), max_retries)
ExhaustedTimeout(name, max_retries) ==
    [tag |-> "Err", kind |-> "timeout", name |-> name,
     attempts |-> max_retries, last |-> "timeout"]

OkResult(v) == [tag |-> "Ok", value |-> v]

RetryInit ==
    /\ r_name \in OpNames
    /\ r_max_retries \in 0..MaxRetriesBound
    /\ r_initial_delay \in InitialDelays
    /\ r_timeout \in BOOLEAN
    /\ r_pc = "loop"
    /\ r_attempt = 0
    /\ r_retry_delay = r_initial_delay     \* Duration::from_millis(initial_delay_ms)
    /\ r_calls = 0
    /\ r_sleeps = << >>
    /\ r_outcomes = << >>
    /\ r_result = None

RetryIdle ==
    /\ r_name = "Quote request"
    /\ r_max_retries = 0
    /\ r_initial_delay = 1
    /\ r_timeout = FALSE
    /\ r_pc = "idle"
    /\ r_attempt = 0
    /\ r_retry_delay = 1
    /\ r_calls = 0
    /\ r_sleeps = << >>
    /\ r_outcomes = << >>
    /\ r_result = None

RetryParams == <<r_name, r_max_retries, r_initial_delay, r_timeout>>

\* The head of the for loop: the next attempt invokes operation(), or the
\* range is used up and control reaches unreachable!().
LoopHead ==
    /\ r_pc = "loop"
    /\ IF InRange(r_attempt, r_max_retries)
         THEN /\ r_pc' = "await"
              /\ r_calls' = r_calls + 1
         ELSE /\ r_pc' = "panic"
              /\ UNCHANGED r_calls
    /\ UNCHANGED <<RetryParams, r_attempt, r_retry_delay, r_sleeps, r_outcomes, r_result>>
    /\ UNCHANGED <<decVars, cycleVars, auxVars>>

\* match result { Ok(value) => return Ok(value) }
OpOk ==
    /\ r_pc = "await"
    /\ \E v \in OpValues :
         /\ r_outcomes' = Append(r_outcomes, OkOutcome(v))
         /\ r_result' = Some(OkResult(v))
    /\ r_pc' = "ok"
    /\ UNCHANGED <<RetryParams, r_attempt, r_retry_delay, r_calls, r_sleeps>>
    /\ UNCHANGED <<decVars, cycleVars, auxVars>>

\* match result { Err(e) => ... }: sleep(retry_delay) when a retry is left,
\* else return the error.
OpErr ==
    /\ r_pc = "await"
    /\ \E e \in OpErrors :
         /\ r_outcomes' = Append(r_outcomes, ErrOutcome(e))
         /\ IF HasRetryLeft(r_attempt, r_max_retries)
              THEN /\ r_sleeps' = Append(r_sleeps, r_retry_delay)
                   /\ r_pc' = "sleep"
                   /\ UNCHANGED r_result
              ELSE /\ r_result' = Some(ExhaustedErr(r_name, r_max_retries, e))
                   /\ r_pc' = "err"
                   /\ UNCHANGED r_sleeps
    /\ UNCHANGED <<RetryParams, r_attempt, r_retry_delay, r_calls>>
    /\ UNCHANGED <<decVars, cycleVars, auxVars>>

\* A mutation of the timeout arm: the next attempt follows at once, with no
\* sleep and no doubling of the delay.
OpTimeoutNoBackoff ==
    /\ r_pc = "await"
    /\ r_timeout
    /\ r_outcomes' = Append(r_outcomes, TimeoutOutcome)
    /\ IF HasRetryLeft(r_attempt, r_max_retries)
         THEN /\ r_attempt' = r_attempt + 1
              /\ r_pc' = "loop"
              /\ UNCHANGED r_result
         ELSE /\ r_result' = Some(ExhaustedTimeout(r_name, r_max_retries))
              /\ r_pc' = "err"
              /\ UNCHANGED r_attempt
    /\ UNCHANGED <<RetryParams, r_retry_delay, r_calls, r_sleeps>>
    /\ UNCHANGED <<decVars, cycleVars, auxVars>>

\* match timeout(timeout_dur, operation()).await { Err(_) => ... }
OpTimeout ==
    /\ r_pc = "await"
    /\ r_timeout
    /\ r_outcomes' = Append(r_outcomes, TimeoutOutcome)
    /\ IF HasRetryLeft(r_attempt, r_max_retries)
         THEN /\ r_sleeps' = Append(r_sleeps, r_retry_delay)
              /\ r_pc' = "sleep"
              /\ UNCHANGED r_result
         ELSE /\ r_result' = Some(ExhaustedTimeout(r_name, r_max_retries))
              /\ r_pc' = "err"
              /\ UNCHANGED r_sleeps
    /\ UNCHANGED <<RetryParams, r_attempt, r_retry_delay, r_calls>>
    /\ UNCHANGED <<decVars, cycleVars, auxVars>>

\* The sleep returns: retry_delay *= 2, and the loop moves to the next attempt.
SleepDone ==
    /\ r_pc = "sleep"
    /\ r_retry_delay' = Doubled(r_retry_delay)
    /\ r_attempt' = r_attempt + 1
    /\ r_pc' = "loop"
    /\ UNCHANGED <<RetryParams, r_calls, r_sleeps, r_outcomes, r_result>>
    /\ UNCHANGED <<decVars, cycleVars, auxVars>>

-----------------------------------------------------------------------------
(* The decision cycle: main.rs execute_single_trade, trading.rs             *)
(* check_and_trade.                                                         *)
(*                                                                          *)
(* Units: a SOL balance is a number of hundredths of a SOL, a USDC balance  *)
(* a number of USDC, a price a number of USDC per SOL, a profit a number of *)
(* hundredths of a USDC.  The f64 quotient effective_price and its product  *)
(* with the amount are taken exactly.                                       *)

\* The largest number of cycles a behaviour starts.
MaxCycles == 3

\* sol_balance_before - 0.01, in hundredths of a SOL
FeeReserve == 1
\* Decimal::from(1_000_000) in validate_price_data
MaxPrice == 1000000

\* What get_current_prices can return for 1 SOL in USDC and for 1 USDC in SOL
SolPrices  == {0, 100, 101, 103, MaxPrice + 1}
UsdcPrices == {0, 1}
\* price_at_trade of a trading session found in the store at the start
SeedPrices == {100}
\* position_after of such a session; "BTC" stands for any unknown string
SeedPositions == {"SOL", "USDC", "BTC"}

\* The balances an RPC read returns, by the asset the wallet holds
SolBalances(h)  == IF h = "SOL" THEN {100, 101} ELSE {FeeReserve}
UsdcBalances(h) == IF h = "USDC" THEN {100, 101} ELSE {0}

Flip(position) == IF position = "SOL" THEN "USDC" ELSE "SOL"

\* A mutation of TradingState::new(): the position starts as SOL.
NewStateSol ==
    [position |-> "SOL", last_sol_price |-> None, last_usdc_price |-> None,
     last_trade_price |-> None, total_profit_usdc |-> 0, total_trades |-> 0,
     winning_trades |-> 0, losing_trades |-> 0]

\* TradingState::new()
NewState ==
    [position |-> "USDC", last_sol_price |-> None, last_usdc_price |-> None,
     last_trade_price |-> None, total_profit_usdc |-> 0, total_trades |-> 0,
     winning_trades |-> 0, losing_trades |-> 0]

\* db.get_latest_trading_session(): the latest trading session, when the read
\* succeeds
get_latest_trading_session(ok) == IF ok THEN db_session ELSE None
\* db.get_latest_profit_tracking(), firestore.rs
get_latest_profit_tracking(ok) == IF ok THEN db_profit ELSE None
\* db.get_latest_price(), firestore.rs
get_latest_price(ok) == IF ok THEN db_price ELSE None

\* A mutation of the match: the stored string is taken as it is.
ParsePositionRaw(s) == s

\* match latest_session.position_after.as_str()
ParsePosition(s) ==
    CASE s = "SOL"  -> "SOL"
      [] s = "USDC" -> "USDC"
      [] OTHER      -> "USDC"

\* A mutation of load_from_firestore: a read that yields no record returns
\* from the function, as the ? operator would, and skips the reads after it.
load_from_firestore_early(st, session, profit, price) ==
    IF session = None THEN st
    ELSE LET s1 == [st EXCEPT !.position = ParsePosition(Unwrap(session).position_after),
                              !.last_trade_price = Some(Unwrap(session).price_at_trade)]
         IN  IF profit = None THEN s1
             ELSE LET s2 == [s1 EXCEPT
                               !.total_profit_usdc = Unwrap(profit).cumulative_profit_usdc,
                               !.total_trades = Unwrap(profit).total_trades,
                               !.winning_trades = Unwrap(profit).winning_trades,
                               !.losing_trades = Unwrap(profit).losing_trades]
                  IN  IF price = None THEN s2
                      ELSE [s2 EXCEPT
                              !.last_sol_price = Some(Unwrap(price).sol_price_usdc),
                              !.last_usdc_price = Some(Unwrap(price).usdc_price_sol)]

\* TradingState::load_from_firestore; each argument is the record of an
\* Ok(Some(..)) read, or None for Ok(None) and for Err
load_from_firestore(st, session, profit, price) ==
    LET s1 == IF IsSome(session)
                THEN [st EXCEPT !.position = ParsePosition(Unwrap(session).position_after),
                                !.last_trade_price = Some(Unwrap(session).price_at_trade)]
                ELSE st
        s2 == IF IsSome(profit)
                THEN [s1 EXCEPT !.total_profit_usdc = Unwrap(profit).cumulative_profit_usdc,
                                !.total_trades = Unwrap(profit).total_trades,
                                !.winning_trades = Unwrap(profit).winning_trades,
                                !.losing_trades = Unwrap(profit).losing_trades]
                ELSE s1
    IN  IF IsSome(price)
          THEN [s2 EXCEPT !.last_sol_price = Some(Unwrap(price).sol_price_usdc),
                          !.last_usdc_price = Some(Unwrap(price).usdc_price_sol)]
          ELSE s2

\* firestore.rs validate_price_data: Ok(()) is TRUE
validate_price_data(price) == price > 0 /\ price <= MaxPrice

OkRes(profit) == [tag |-> "Ok", profit |-> profit, error |-> ""]
ErrRes(e)     == [tag |-> "Err", profit |-> None, error |-> e]

NoRecords == [price |-> 0, session |-> 0, profit |-> 0]

CycleInit ==
    /\ db_session \in {None} \cup
           {Some([position_before |-> Flip(ParsePosition(p)), position_after |-> p,
                  price_at_trade |-> q]) : p \in SeedPositions, q \in SeedPrices}
    /\ db_profit = None
    /\ db_price = None
    /\ held \in Position
    /\ pc = "idle"
    /\ cycles = 0
    /\ firestore = FALSE
    /\ state = NewState
    /\ state0 = NewState
    /\ sol_price_in_usdc = 0
    /\ usdc_price_in_sol = 0
    /\ sol_balance_before = 0
    /\ usdc_balance_before = 0
    /\ trend_result = "none"
    /\ swapped = FALSE
    /\ result = None
    /\ handed = NoRecords
    /\ sent = << >>
    /\ outcome = None

CycleIdle ==
    /\ db_session = None
    /\ db_profit = None
    /\ db_price = None
    /\ held = "USDC"
    /\ pc = "off"
    /\ cycles = 0
    /\ firestore = FALSE
    /\ state = NewState
    /\ state0 = NewState
    /\ sol_price_in_usdc = 0
    /\ usdc_price_in_sol = 0
    /\ sol_balance_before = 0
    /\ usdc_balance_before = 0
    /\ trend_result = "none"
    /\ swapped = FALSE
    /\ result = None
    /\ handed = NoRecords
    /\ sent = << >>
    /\ outcome = None

storeVars  == <<db_session, db_profit, db_price>>
localVars  == <<sol_price_in_usdc, usdc_price_in_sol, sol_balance_before,
                usdc_balance_before, trend_result>>

\* The locals of a fresh cycle
FreshCycle ==
    /\ sol_price_in_usdc' = 0
    /\ usdc_price_in_sol' = 0
    /\ sol_balance_before' = 0
    /\ usdc_balance_before' = 0
    /\ trend_result' = "none"
    /\ swapped' = FALSE
    /\ result' = None
    /\ handed' = NoRecords
    /\ sent' = << >>

\* db.cleanup_old_data: a document older than the retention period is
\* deleted; which ones are that old depends on the time that has passed.
Expire(doc, old) == IF old THEN None ELSE doc

\* trigger_trade spawns execute_single_trade; Config::from_env or Wallet::new
\* fails and the task returns the error.
ConfigFail ==
    /\ pc \in {"idle", "done"}
    /\ cycles < MaxCycles
    /\ cycles' = cycles + 1
    /\ FreshCycle
    /\ firestore' = FALSE
    /\ state' = NewState
    /\ state0' = NewState
    /\ outcome' = Some("Err")
    /\ pc' = "done"
    /\ UNCHANGED <<storeVars, held>>
    /\ UNCHANGED <<decVars, retryVars, auxVars>>

\* trigger_trade spawns execute_single_trade: FirestoreDb::new, then
\* TradingState::new().with_firestore(db), load_from_firestore and
\* cleanup_old_data, up to the call of check_and_trade.
Trigger ==
    /\ pc \in {"idle", "done"}
    /\ cycles < MaxCycles
    /\ cycles' = cycles + 1
    /\ FreshCycle
    /\ outcome' = None
    /\ pc' = "prices"
    /\ \E db_ok \in BOOLEAN :
         /\ firestore' = db_ok
         /\ IF db_ok
              THEN \E r1, r2, r3 \in BOOLEAN, old1, old2, old3 \in BOOLEAN :
                     /\ state' = load_from_firestore(NewState,
                                     get_latest_trading_session(r1),
                                     get_latest_profit_tracking(r2),
                                     get_latest_price(r3))
                     /\ db_session' = Expire(db_session, old1)
                     /\ db_profit' = Expire(db_profit, old2)
                     /\ db_price' = Expire(db_price, old3)
              ELSE /\ state' = NewState
                   /\ UNCHANGED storeVars
    /\ state0' = state'
    /\ UNCHANGED held
    /\ UNCHANGED <<decVars, retryVars, auxVars>>

\* check_and_trade returns Err(e): the ? operator leaves state as it is.
Fail(e) ==
    /\ result' = Some(ErrRes(e))
    /\ pc' = "notify"

\* A mutation of the store of the price sample: none is built.
StorePriceHistorySkipped(h) == h

\* trading.rs:149-162: one PriceHistory is built and handed to
\* db.store_price_history
StorePriceHistory(h) == [h EXCEPT !.price = @ + 1]

\* trading.rs:140-162: get_current_prices, validate_price_data twice, and the
\* price sample handed to store_price_history when a store is configured.
GetPrices ==
    /\ pc = "prices"
    /\ \/ /\ Fail("get_current_prices")
          /\ UNCHANGED <<sol_price_in_usdc, usdc_price_in_sol, db_price, handed>>
       \/ \E sp \in SolPrices, up \in UsdcPrices :
            /\ sol_price_in_usdc' = sp
            /\ usdc_price_in_sol' = up
            /\ IF ~validate_price_data(sp) \/ ~validate_price_data(up)
                 THEN /\ Fail("Invalid price")
                      /\ UNCHANGED <<db_price, handed>>
                 ELSE /\ pc' = "balances"
                      /\ UNCHANGED result
                      /\ IF firestore
                           THEN /\ handed' = StorePriceHistory(handed)
                                /\ \E written \in BOOLEAN :
                                     db_price' = IF written
                                                   THEN Some([sol_price_usdc |-> sp,
                                                              usdc_price_sol |-> up])
                                                   ELSE db_price
                           ELSE UNCHANGED <<db_price, handed>>
    /\ UNCHANGED <<db_session, db_profit, held, cycles, firestore, state, state0,
                   sol_balance_before, usdc_balance_before, trend_result, swapped,
                   sent, outcome>>
    /\ UNCHANGED <<decVars, retryVars, auxVars>>

\* trading.rs:168-170: get_sol_balance, Pubkey::from_str, get_token_balance
ReadBalances ==
    /\ pc = "balances"
    /\ \/ /\ \E e \in {"get_sol_balance", "Pubkey::from_str", "get_token_balance"} :
               Fail(e)
          /\ UNCHANGED <<sol_balance_before, usdc_balance_before>>
       \/ /\ sol_balance_before' \in SolBalances(held)
          /\ usdc_balance_before' \in UsdcBalances(held)
          /\ pc' = "decide"
          /\ UNCHANGED result
    /\ UNCHANGED <<storeVars, held, cycles, firestore, state, state0,
                   sol_price_in_usdc, usdc_price_in_sol, trend_result, swapped,
                   handed, sent, outcome>>
    /\ UNCHANGED <<decVars, retryVars, auxVars>>

\* A mutation of the amount test: a zero amount is swapped too.
HasAmountAlways(position, sol_before, usdc_before) == TRUE

\* trading.rs:200 and 275-276: usdc_balance_before > 0.0, and
\* sol_balance_before - 0.01 > 0.0
HasAmount(position, sol_before, usdc_before) ==
    CASE position = "USDC" -> usdc_before > 0
      [] position = "SOL"  -> sol_before - FeeReserve > 0

\* A mutation of the Err arm of get_price_trend: the error is returned.
TrendErrorReturned == TRUE

\* trading.rs:183-187: the Err arm of get_price_trend logs the error and
\* calls should_make_trade_simple; it does not return.
TrendErrorReturns == FALSE

\* trading.rs:173-196: get_price_trend, the decision, and the match on the
\* position up to the call of execute_swap.
Decide ==
    /\ pc = "decide"
    /\ \E trend \in Option(Trends) :     \* None: get_price_trend returned Err
         LET should_trade ==
               IF firestore /\ IsSome(trend)
                 THEN should_make_trade(state.position, Unwrap(trend),
                                        sol_price_in_usdc, state.last_trade_price)
                 ELSE should_make_trade_simple(state.position, sol_price_in_usdc,
                                               state.last_trade_price)
         IN  /\ trend_result' = IF ~firestore THEN "none"
                                 ELSE IF IsSome(trend) THEN "ok" ELSE "err"
             /\ IF firestore /\ trend = None /\ TrendErrorReturns
                  THEN Fail("get_price_trend")
                  ELSE IF ~should_trade
                    THEN /\ result' = Some(OkRes(None))     \* return Ok(None)
                         /\ pc' = "notify"
                    ELSE IF HasAmount(state.position, sol_balance_before,
                                      usdc_balance_before)
                           THEN /\ pc' = "swap"
                                /\ UNCHANGED result
                           ELSE /\ result' = Some(OkRes(None))   \* Ok(profit), profit = None
                                /\ pc' = "notify"
    /\ UNCHANGED <<storeVars, held, cycles, firestore, state, state0,
                   sol_price_in_usdc, usdc_price_in_sol, sol_balance_before,
                   usdc_balance_before, swapped, handed, sent, outcome>>
    /\ UNCHANGED <<decVars, retryVars, auxVars>>

\* The steps of execute_swap that can fail before anything is submitted
SwapSteps == {"get_quote", "get_swap_transaction", "decode", "deserialize",
              "get_latest_blockhash"}

\* A mutation of the order of the steps: the position is assigned when the swap
\* is requested, before execute_swap has returned.
ExecuteSwapEager ==
    /\ pc = "swap"
    /\ \/ /\ \E e \in SwapSteps : Fail(e)
          /\ UNCHANGED <<held, swapped>>
       \/ /\ Fail("send_and_confirm_transaction")
          /\ \E landed \in BOOLEAN :
               held' = IF landed THEN Flip(state.position) ELSE held
          /\ UNCHANGED swapped
       \/ /\ held' = Flip(state.position)
          /\ swapped' = TRUE
          /\ pc' = "after"
          /\ UNCHANGED result
    /\ state' = [state EXCEPT !.position = Flip(@)]
    /\ UNCHANGED <<storeVars, cycles, firestore, state0, localVars,
                   handed, sent, outcome>>
    /\ UNCHANGED <<decVars, retryVars, auxVars>>

\* jupiter.rs execute_swap, as check_and_trade sees it: an error before the
\* submission, an error of the submission (the transaction may have landed
\* all the same), or Ok(signature) after send_and_confirm_transaction.
ExecuteSwap ==
    /\ pc = "swap"
    /\ \/ /\ \E e \in SwapSteps : Fail(e)
          /\ UNCHANGED <<held, swapped>>
       \/ /\ Fail("send_and_confirm_transaction")
          /\ \E landed \in BOOLEAN :
               held' = IF landed THEN Flip(state.position) ELSE held
          /\ UNCHANGED swapped
       \/ /\ held' = Flip(state.position)
          /\ swapped' = TRUE
          /\ pc' = "after"
          /\ UNCHANGED result
    /\ UNCHANGED <<storeVars, cycles, firestore, state, state0, localVars,
                   handed, sent, outcome>>
    /\ UNCHANGED <<decVars, retryVars, auxVars>>

\* trading.rs:220-226 (USDC -> SOL): effective_price = usdc_spent / sol_gained
\* when sol_gained > 0, else 0; total_profit = (effective_price - last_price)
\* * sol_gained, in hundredths of a USDC.
BuyProfit(last_price, sol_before, usdc_before, sol_after, usdc_after) ==
    LET sol_gained == sol_after - sol_before
        usdc_spent == usdc_before - usdc_after
    IN  (IF sol_gained > 0 THEN 100 * usdc_spent ELSE 0) - last_price * sol_gained

\* trading.rs:296-302 (SOL -> USDC): total_profit = (sol_price_in_usdc -
\* last_price) * sol_spent, in hundredths of a USDC.
SellProfit(sol_price, last_price, sol_before, sol_after) ==
    (sol_price - last_price) * (sol_before - sol_after)

\* trading.rs:227-233 and 303-310: state.total_profit_usdc += total_profit and
\* the match on total_profit.cmp(&dec!(0)).  total_trades is not assigned.
Account(st, total_profit) ==
    [st EXCEPT !.total_profit_usdc = @ + total_profit,
               !.winning_trades = IF total_profit > 0 THEN @ + 1 ELSE @,
               !.losing_trades = IF total_profit < 0 THEN @ + 1 ELSE @]

\* trading.rs:224-238 and 300-315: profit_loss and the state after it
Settle(st, total_profit) ==
    IF IsSome(st.last_sol_price)
      THEN [st |-> Account(st, total_profit), profit_loss |-> Some(total_profit)]
      ELSE [st |-> st, profit_loss |-> None]

\* A mutation of the final assignments: the position is left as it was.
CommitKeepPosition(st, profit_loss, position_after) ==
    [st EXCEPT !.total_profit_usdc = IF IsSome(profit_loss) THEN Unwrap(profit_loss) ELSE 0]

\* trading.rs:267-268 and 367-368:
\* state.total_profit_usdc = profit_loss.unwrap_or(dec!(0)); state.position = ..
Commit(st, profit_loss, position_after) ==
    [st EXCEPT !.total_profit_usdc = IF IsSome(profit_loss) THEN Unwrap(profit_loss) ELSE 0,
               !.position = position_after]

\* A mutation of the order of the steps: the position is assigned before the
\* balances after the trade are read.
PostSwapFailFlipped ==
    /\ \E e \in {"get_sol_balance", "get_token_balance"} : Fail(e)
    /\ state' = [state EXCEPT !.position = Flip(@)]
    /\ UNCHANGED <<db_session, db_profit, handed>>

\* trading.rs:216-217 and 291-292: a read of the balances after the trade
\* fails and ? returns the error.
PostSwapFail ==
    /\ \E e \in {"get_sol_balance", "get_token_balance"} : Fail(e)
    /\ UNCHANGED <<state, db_session, db_profit, handed>>

\* A mutation of the handling of a failed write: the error is returned.
AfterStoreChecked(written, r) == IF written THEN r ELSE ErrRes("store")

\* trading.rs:261-263, 338-340, 360-362: if let Err(e) = db.store_..(..)
\* { error!(..) }: a failed write is logged and the result is what it was.
AfterStore(written, r) == r

\* trading.rs:216-268 and 291-368: the balances after the trade, the profit,
\* the trading session and (SOL -> USDC only) the profit record handed to the
\* store, and the final assignments; check_and_trade returns Ok(profit).
PostSwap ==
    /\ pc = "after"
    /\ \/ PostSwapFail
       \/ \E sol_after \in SolBalances(held), usdc_after \in UsdcBalances(held) :
            LET buying == state.position = "USDC"
                last == Unwrap(state.last_sol_price)
                total_profit ==
                    IF buying
                      THEN BuyProfit(last, sol_balance_before, usdc_balance_before,
                                     sol_after, usdc_after)
                      ELSE SellProfit(sol_price_in_usdc, last, sol_balance_before,
                                      sol_after)
                settled == Settle(state, total_profit)
                session == [position_before |-> state.position,
                            position_after |-> Flip(state.position),
                            price_at_trade |-> sol_price_in_usdc]
                tracking == [cumulative_profit_usdc |-> settled.st.total_profit_usdc,
                             total_trades |-> settled.st.total_trades + 1,
                             winning_trades |-> settled.st.winning_trades,
                             losing_trades |-> settled.st.losing_trades]
                tracked == firestore /\ ~buying /\ IsSome(settled.profit_loss)
            IN  \E session_written, profit_written \in BOOLEAN :
                  /\ db_session' = IF firestore /\ session_written
                                     THEN Some(session) ELSE db_session
                  /\ db_profit' = IF tracked /\ profit_written
                                    THEN Some(tracking) ELSE db_profit
                  /\ handed' = [handed EXCEPT
                                  !.session = IF firestore THEN @ + 1 ELSE @,
                                  !.profit = IF tracked THEN @ + 1 ELSE @]
                  /\ state' = Commit(settled.st, settled.profit_loss,
                                     Flip(state.position))
                  /\ result' = Some(AfterStore(
                                    (firestore => session_written)
                                        /\ (tracked => profit_written),
                                    OkRes(settled.profit_loss)))
                  /\ pc' = "notify"
    /\ UNCHANGED <<db_price, held, cycles, firestore, state0, localVars, swapped,
                   sent, outcome>>
    /\ UNCHANGED <<decVars, retryVars, auxVars>>

TradeMessage(position) == [kind |-> "trade", error |-> "", position |-> position]
ErrorMessage(e)        == [kind |-> "error", error |-> e, position |-> ""]
DailyMessage           == [kind |-> "daily", error |-> "", position |-> ""]

\* A mutation of the match: the Err arm only logs, as the Ok(None) arm does.
SummaryQuietError(r, position) ==
    CASE r.tag = "Ok" /\ IsSome(r.profit) -> <<TradeMessage(position)>>
      [] r.tag = "Ok" /\ r.profit = None  -> << >>
      [] r.tag = "Err"                    -> << >>

\* main.rs:116-152: the texts passed to line_client.send_message for the
\* result r of check_and_trade.  Ok(None) only logs.
Summary(r, position) ==
    CASE r.tag = "Ok" /\ IsSome(r.profit) -> <<TradeMessage(position)>>
      [] r.tag = "Ok" /\ r.profit = None  -> << >>
      [] r.tag = "Err"                    -> <<ErrorMessage(r.error)>>

\* main.rs:116-165: the match on check_and_trade's result.  A failure of
\* send_message is returned by ?, and so is the error of check_and_trade; at
\* midnight JST a cycle that gets that far sends the daily price summary.
Notify ==
    /\ pc = "notify"
    /\ LET r == Unwrap(result)
           summary == Summary(r, state.position)
       IN  \E delivered \in BOOLEAN, midnight \in BOOLEAN :
             IF r.tag = "Err" \/ (summary # << >> /\ ~delivered)
               THEN /\ sent' = summary
                    /\ outcome' = Some("Err")
               ELSE /\ sent' = IF midnight /\ firestore
                                 THEN Append(summary, DailyMessage)
                                 ELSE summary
                    /\ outcome' = Some("Ok")
    /\ pc' = "done"
    /\ UNCHANGED <<storeVars, held, cycles, firestore, state, state0, localVars,
                   swapped, result, handed>>
    /\ UNCHANGED <<decVars, retryVars, auxVars>>

-----------------------------------------------------------------------------
(* Rehydration: main.rs:77-91, TradingState::new().with_firestore(db) and   *)
(* load_from_firestore, applied to a store drawn at the start.              *)

\* The trading sessions, profit records and price samples a store can hold
RehSessions ==
    {[position_before |-> Flip(ParsePosition(p)), position_after |-> p,
      price_at_trade |-> q] : p \in SeedPositions, q \in {100, 103}}
RehProfits ==
    {[cumulative_profit_usdc |-> c, total_trades |-> n, winning_trades |-> w,
      losing_trades |-> n - w] : c \in {-50, 99}, n \in {1, 2}, w \in {0, 1}}
RehPrices ==
    {[sol_price_usdc |-> sp, usdc_price_sol |-> 1] : sp \in {100, 101}}

RehydrateInit ==
    /\ db_session \in Option(RehSessions)
    /\ db_profit \in Option(RehProfits)
    /\ db_price \in Option(RehPrices)
    /\ held = "USDC"
    /\ pc = "off"
    /\ cycles = 0
    /\ firestore = FALSE
    /\ state = NewState
    /\ state0 = NewState
    /\ sol_price_in_usdc = 0
    /\ usdc_price_in_sol = 0
    /\ sol_balance_before = 0
    /\ usdc_balance_before = 0
    /\ trend_result = "none"
    /\ swapped = FALSE
    /\ result = None
    /\ handed = NoRecords
    /\ sent = << >>
    /\ outcome = None
    /\ h_reads = None
    /\ h_state = None

RehydrateIdle ==
    /\ h_reads = None
    /\ h_state = None

\* main.rs:77-91: FirestoreDb::new succeeds or not; with a database the
\* state is TradingState::new().with_firestore(db) after load_from_firestore,
\* whose three reads each succeed or fail; without one it is
\* TradingState::new().  An Err of load_from_firestore is only logged.
Rehydrate ==
    /\ h_state = None
    /\ \E db_ok, r1, r2, r3 \in BOOLEAN :
         /\ h_reads' = Some([db |-> db_ok, session |-> r1, profit |-> r2,
                             price |-> r3])
         /\ h_state' = Some(IF db_ok
                              THEN load_from_firestore(NewState,
                                       get_latest_trading_session(r1),
                                       get_latest_profit_tracking(r2),
                                       get_latest_price(r3))
                              ELSE NewState)
    /\ UNCHANGED <<decVars, retryVars, cycleVars, swapVars, concVars, settleVars, reqVars, funVars, stepVars>>

-----------------------------------------------------------------------------
(* One trade decision and its swap: trading.rs:196-286 (the match that      *)
(* calls execute_swap), jupiter.rs:255-335 (execute_swap).                  *)
(*                                                                          *)
(* A blockhash is the number of the block it names; the chain's tip only    *)
(* grows.  A transaction is its message (the instructions the provider      *)
(* built and the recent blockhash) and whether it carries the wallet's      *)
(* signature; the signature of a signed transaction is a function of its    *)
(* message, so two signed transactions are the same transaction exactly     *)
(* when these fields are equal.  The chain executes a signed transaction at *)
(* most once: a transaction it has already processed is not executed again. *)

\* The largest blockhash number a behaviour reaches.
MaxTip == 2
\* max_retries of the retry around send_and_confirm_transaction
SubmitRetries == 3
\* The instruction lists the provider can build (one per route)
Instructions == {"route1", "route2"}

\* What the bytes of swap_response.swap_transaction are: valid base64 or not,
\* accepted by bincode as a VersionedTransaction or not, with a message that
\* into_legacy_transaction converts or not, accepted as a Transaction or not.
Payloads ==
    {f \in [base64 : BOOLEAN, versioned : BOOLEAN, convertible : BOOLEAN,
            legacy : BOOLEAN] :
        /\ ~f.base64 => (~f.versioned /\ ~f.legacy)
        /\ f.convertible => f.versioned}

SwapOk(tx)    == [tag |-> "Ok", step |-> "", signature |-> Some(tx)]
SwapErr(step) == [tag |-> "Err", step |-> step, signature |-> None]

SwapInit ==
    /\ s_pc = "call"
    /\ s_calls = 0
    /\ s_steps = << >>
    /\ s_tip = 0
    /\ s_built = None
    /\ s_tried = << >>
    /\ s_fetched = None
    /\ s_tx = None
    /\ s_attempt = 0
    /\ s_submitted = << >>
    /\ s_executed = << >>
    /\ s_result = None

SwapIdle ==
    /\ s_pc = "off"
    /\ s_calls = 0
    /\ s_steps = << >>
    /\ s_tip = 0
    /\ s_built = None
    /\ s_tried = << >>
    /\ s_fetched = None
    /\ s_tx = None
    /\ s_attempt = 0
    /\ s_submitted = << >>
    /\ s_executed = << >>
    /\ s_result = None

exceptSwap == <<decVars, retryVars, cycleVars, rehVars, concVars, settleVars, reqVars, funVars, stepVars>>

\* The chain produces a block while the cycle runs.
NewBlock ==
    /\ s_pc \in {"call", "quote", "build", "decode", "blockhash", "sign", "submit"}
    /\ s_tip < MaxTip
    /\ s_tip' = s_tip + 1
    /\ UNCHANGED <<s_pc, s_calls, s_steps, s_built, s_tried, s_fetched, s_tx, s_attempt,
                   s_submitted, s_executed, s_result>>
    /\ UNCHANGED exceptSwap

\* A step of execute_swap returns Err through the ? operator or a return.
SwapFail(step) ==
    /\ s_pc' = "err"
    /\ s_result' = Some(SwapErr(step))
    /\ UNCHANGED <<s_calls, s_steps, s_tip, s_built, s_tried, s_fetched, s_tx, s_attempt,
                   s_submitted, s_executed>>

\* trading.rs:196-211 and 271-286: the arm of match state.position that runs
\* calls execute_swap once, with ?.
CallExecuteSwap ==
    /\ s_pc = "call"
    /\ s_calls' = s_calls + 1
    /\ s_pc' = "quote"
    /\ UNCHANGED <<s_steps, s_tip, s_built, s_tried, s_fetched, s_tx, s_attempt, s_submitted,
                   s_executed, s_result>>
    /\ UNCHANGED exceptSwap

\* jupiter.rs:265: self.get_quote(..).await?
GetQuote ==
    /\ s_pc = "quote"
    /\ \/ SwapFail("quote")
       \/ /\ s_steps' = Append(s_steps, "quote")
          /\ s_pc' = "build"
          /\ UNCHANGED <<s_calls, s_tip, s_built, s_tried, s_fetched, s_tx, s_attempt,
                         s_submitted, s_executed, s_result>>
    /\ UNCHANGED exceptSwap

\* jupiter.rs:268: self.get_swap_transaction(wallet.pubkey(), quote).await?
\* The provider returns an unsigned transaction with instructions of its
\* choice and a blockhash it has seen, in a payload of its choice.
GetSwapTransaction ==
    /\ s_pc = "build"
    /\ \/ SwapFail("build")
       \/ \E i \in Instructions, b \in 0..s_tip, f \in Payloads :
            /\ s_built' = Some([instructions |-> i, blockhash |-> b, at |-> s_tip,
                                 payload |-> f])
            /\ s_steps' = Append(s_steps, "build")
            /\ s_pc' = "decode"
            /\ UNCHANGED <<s_calls, s_tip, s_tried, s_fetched, s_tx, s_attempt, s_submitted,
                           s_executed, s_result>>
    /\ UNCHANGED exceptSwap

Decoded(tried)  == [tried |-> tried, ok |-> TRUE]
Rejected(tried) == [tried |-> tried, ok |-> FALSE]

\* A mutation of the None arm: a versioned transaction that cannot be
\* converted is handed to the legacy decoder.
deserialize_fallback(f) ==
    IF ~f.base64 THEN Rejected(<<"base64">>)
    ELSE IF f.versioned /\ f.convertible
      THEN Decoded(<<"base64", "versioned", "into_legacy">>)
    ELSE IF f.versioned
      THEN IF f.legacy
             THEN Decoded(<<"base64", "versioned", "into_legacy", "legacy">>)
             ELSE Rejected(<<"base64", "versioned", "into_legacy", "legacy">>)
    ELSE IF f.legacy
      THEN Decoded(<<"base64", "versioned", "legacy">>)
      ELSE Rejected(<<"base64", "versioned", "legacy">>)

\* jupiter.rs:273-307: base64 decode with ?, then the match on
\* bincode::deserialize::<VersionedTransaction>: Ok goes to
\* into_legacy_transaction (None returns Err), Err goes to
\* bincode::deserialize::<Transaction> (Err returns Err).
deserialize(f) ==
    IF ~f.base64 THEN Rejected(<<"base64">>)
    ELSE IF f.versioned
      THEN IF f.convertible
             THEN Decoded(<<"base64", "versioned", "into_legacy">>)
             ELSE Rejected(<<"base64", "versioned", "into_legacy">>)
    ELSE IF f.legacy
      THEN Decoded(<<"base64", "versioned", "legacy">>)
      ELSE Rejected(<<"base64", "versioned", "legacy">>)

\* jupiter.rs:273-307: the local transaction is bound when a decoder gives a
\* legacy transaction; each failure returns Err.
Decode ==
    /\ s_pc = "decode"
    /\ LET d == deserialize(Unwrap(s_built).payload)
       IN  /\ s_tried' = d.tried
           /\ IF d.ok
                THEN /\ s_tx' = Some([instructions |-> Unwrap(s_built).instructions,
                                      blockhash |-> Unwrap(s_built).blockhash,
                                      signed |-> FALSE])
                     /\ s_steps' = Append(s_steps, "decode")
                     /\ s_pc' = "blockhash"
                     /\ UNCHANGED s_result
                ELSE /\ s_pc' = "err"
                     /\ s_result' = Some(SwapErr("decode"))
                     /\ UNCHANGED <<s_tx, s_steps>>
    /\ UNCHANGED <<s_calls, s_tip, s_built, s_fetched, s_attempt, s_submitted,
                   s_executed>>
    /\ UNCHANGED exceptSwap

\* A mutation of the assignment: the blockhash of the provider is kept.
StampNot(tx, recent_blockhash) == tx

\* jupiter.rs:313: transaction.message.recent_blockhash = recent_blockhash
Stamp(tx, recent_blockhash) == [tx EXCEPT !.blockhash = recent_blockhash]

\* jupiter.rs:310-313: rpc_client.get_latest_blockhash()? and the assignment
GetLatestBlockhash ==
    /\ s_pc = "blockhash"
    /\ \/ SwapFail("blockhash")
       \/ /\ s_fetched' = Some(s_tip)
          /\ s_tx' = Some(Stamp(Unwrap(s_tx), s_tip))
          /\ s_steps' = Append(s_steps, "blockhash")
          /\ s_pc' = "sign"
          /\ UNCHANGED <<s_calls, s_tip, s_built, s_tried, s_attempt, s_submitted,
                         s_executed, s_result>>
    /\ UNCHANGED exceptSwap

\* A mutation of the signing: the wallet signs a message of its own making.
sign_transaction_rebuilt(transaction) ==
    [transaction EXCEPT !.instructions = "route1", !.signed = TRUE]

\* wallet.rs:35-38: transaction.sign(&[&self.keypair],
\* transaction.message.recent_blockhash) leaves the message as it is.
sign_transaction(transaction) == [transaction EXCEPT !.signed = TRUE]

\* jupiter.rs:316, wallet.rs:35-38: wallet.sign_transaction(&mut transaction)?
\* signs over the message and always returns Ok(()).
SignTransaction ==
    /\ s_pc = "sign"
    /\ s_tx' = Some(sign_transaction(Unwrap(s_tx)))
    /\ s_steps' = Append(s_steps, "sign")
    /\ s_attempt' = 0
    /\ s_pc' = "submit"
    /\ UNCHANGED <<s_calls, s_tip, s_built, s_tried, s_fetched, s_submitted, s_executed,
                   s_result>>
    /\ UNCHANGED exceptSwap

\* A mutation of the closure: every attempt sends the transaction with the
\* blockhash of the moment, signed again.
TransactionSentFresh(tx, tip) == [tx EXCEPT !.blockhash = tip]

\* jupiter.rs:320-322: the closure borrows the local transaction, so every
\* attempt passes the same &transaction to send_and_confirm_transaction.
TransactionSent(tx, tip) == tx

\* What one call of send_and_confirm_transaction(tx), under the timeout of
\* 60 s, can do to the chain and report: a transaction not yet processed is
\* executed or not, and an executed one can still be reported as an error or
\* run into the timeout; a transaction already processed is not executed
\* again, and the node's answer for it is Ok or an error.
Attempts(tx, executed) ==
    IF \E k \in DOMAIN executed : executed[k] = tx
      THEN {[tx |-> tx, landed |-> FALSE, report |-> r] : r \in {"ok", "err", "timeout"}}
      ELSE {[tx |-> tx, landed |-> TRUE, report |-> r] : r \in {"ok", "err", "timeout"}}
           \cup {[tx |-> tx, landed |-> FALSE, report |-> r] : r \in {"err", "timeout"}}

\* jupiter.rs:319-330 with service.rs:21-83: one pass of the retry loop
\* around send_and_confirm_transaction.  Ok returns the signature; an error
\* or a timeout sleeps and goes to the next attempt while one is left, and
\* returns Err after the last.
SubmitAttempt ==
    /\ s_pc = "submit"
    /\ InRange(s_attempt, SubmitRetries)
    /\ \E a \in Attempts(TransactionSent(Unwrap(s_tx), s_tip), s_executed) :
         /\ s_submitted' = Append(s_submitted, a)
         /\ s_executed' = IF a.landed THEN Append(s_executed, a.tx) ELSE s_executed
         /\ IF a.report = "ok"
              THEN /\ s_pc' = "ok"
                   /\ s_result' = Some(SwapOk(a.tx))
                   /\ UNCHANGED s_attempt
              ELSE IF HasRetryLeft(s_attempt, SubmitRetries)
                     THEN /\ s_attempt' = s_attempt + 1
                          /\ UNCHANGED <<s_pc, s_result>>
                     ELSE /\ s_pc' = "err"
                          /\ s_result' = Some(SwapErr("submit"))
                          /\ UNCHANGED s_attempt
    /\ UNCHANGED <<s_calls, s_steps, s_tip, s_built, s_tried, s_fetched, s_tx>>
    /\ UNCHANGED exceptSwap

-----------------------------------------------------------------------------
(* Concurrent triggers: main.rs:58-69 (trigger_trade) spawns one task per   *)
(* request, each running execute_single_trade (main.rs:71-166) over the     *)
(* same wallet and the same store.  A task is followed from one await to    *)
(* the next: rehydration, the balance reads before the trade, the decision, *)
(* execute_swap, the balance reads after the trade and the session write.   *)

\* The number of requests to /trigger a behaviour receives.
MaxTasks == 2
Tasks == 1..MaxTasks

ConcurrentInit ==
    /\ c_pc = [t \in Tasks |-> "idle"]
    /\ c_held \in Position
    /\ c_store \in Position
    /\ c_position = [t \in Tasks |-> "USDC"]
    /\ c_before = [t \in Tasks |-> None]
    /\ c_overlap = FALSE

ConcurrentIdle ==
    /\ c_pc = << >>
    /\ c_held = "USDC"
    /\ c_store = "USDC"
    /\ c_position = << >>
    /\ c_before = << >>
    /\ c_overlap = FALSE

exceptConcurrent == <<decVars, retryVars, cycleVars, rehVars, swapVars, settleVars, reqVars, funVars, stepVars>>

\* The task is between its balance reads before the trade and those after it.
InTrade(t) == c_pc[t] \in {"swap", "after"}
OthersInTrade(t) == \E u \in Tasks \ {t} : InTrade(u)

\* main.rs:58-69: a request to /trigger arrives.  trigger_trade spawns the
\* task whatever other tasks are doing; it takes no lock and looks at no flag.
TriggerTrade ==
    \E t \in Tasks :
        /\ c_pc[t] = "idle"
        /\ c_pc' = [c_pc EXCEPT ![t] = "spawned"]
        /\ UNCHANGED <<c_held, c_store, c_position, c_before, c_overlap>>
        /\ UNCHANGED exceptConcurrent

\* main.rs:72-91: the task builds its own TradingState and rehydrates it from
\* the store; the position is that of the latest session.
LoadState ==
    \E t \in Tasks :
        /\ c_pc[t] = "spawned"
        /\ c_position' = [c_position EXCEPT ![t] = c_store]
        /\ c_pc' = [c_pc EXCEPT ![t] = "loaded"]
        /\ UNCHANGED <<c_held, c_store, c_before, c_overlap>>
        /\ UNCHANGED exceptConcurrent

\* trading.rs:140-170: prices, then get_sol_balance and get_token_balance
\* before the trade; a failure ends the cycle.
ReadBalancesBefore ==
    \E t \in Tasks :
        /\ c_pc[t] = "loaded"
        /\ \/ /\ c_before' = [c_before EXCEPT ![t] = Some(c_held)]
              /\ c_overlap' = (c_overlap \/ OthersInTrade(t))
              /\ c_pc' = [c_pc EXCEPT ![t] = "decide"]
           \/ /\ c_pc' = [c_pc EXCEPT ![t] = "done"]
              /\ UNCHANGED <<c_before, c_overlap>>
        /\ UNCHANGED <<c_held, c_store, c_position>>
        /\ UNCHANGED exceptConcurrent

\* trading.rs:173-200, 271-276: the decision fires or not; the swap is called
\* only with a positive amount of the asset the position names.
DecideTrade ==
    \E t \in Tasks :
        /\ c_pc[t] = "decide"
        /\ \/ /\ c_before[t] = Some(c_position[t])
              /\ c_pc' = [c_pc EXCEPT ![t] = "swap"]
           \/ c_pc' = [c_pc EXCEPT ![t] = "done"]
        /\ UNCHANGED <<c_held, c_store, c_position, c_before, c_overlap>>
        /\ UNCHANGED exceptConcurrent

\* trading.rs:204-211, 279-286: execute_swap.  The swap is confirmed only
\* when the wallet still holds the asset to sell; otherwise, or on any other
\* failure, the error ends the cycle.
SubmitSwap ==
    \E t \in Tasks :
        /\ c_pc[t] = "swap"
        /\ c_overlap' = (c_overlap \/ OthersInTrade(t))
        /\ \/ /\ c_held = c_position[t]
              /\ c_held' = Flip(c_held)
              /\ c_pc' = [c_pc EXCEPT ![t] = "after"]
           \/ /\ c_pc' = [c_pc EXCEPT ![t] = "done"]
              /\ UNCHANGED c_held
        /\ UNCHANGED <<c_store, c_position, c_before>>
        /\ UNCHANGED exceptConcurrent

\* trading.rs:216-268, 291-368: the balance reads after the trade, then the
\* session is written and the position flipped; a failed read ends the
\* cycle before the write.
ReadBalancesAfter ==
    \E t \in Tasks :
        /\ c_pc[t] = "after"
        /\ \/ /\ c_store' = Flip(c_position[t])
              /\ c_position' = [c_position EXCEPT ![t] = Flip(c_position[t])]
           \/ UNCHANGED <<c_store, c_position>>
        /\ c_pc' = [c_pc EXCEPT ![t] = "done"]
        /\ UNCHANGED <<c_held, c_before, c_overlap>>
        /\ UNCHANGED exceptConcurrent

-----------------------------------------------------------------------------
(* Settlement: trading.rs:219-238 and 294-315, the realized price and the   *)
(* profit of a confirmed swap, applied to drawn balances.  The balances     *)
(* after the swap are whatever the RPC reads return, so they include        *)
(* readings in which the asset sold has not gone down.                      *)

\* Prices, and balances before and after a swap (SOL in hundredths, USDC)
SettlePrices == {90, 100, 101}
SettleSol    == {1, 501}
SettleUsdc   == {0, 500, 505}

\* A rational price: num / den USDC per SOL
Ratio(num, den) == [num |-> num, den |-> den]

\* trading.rs:220-222: effective_price = if sol_gained > 0.0
\* { usdc_spent / sol_gained } else { 0.0 }
BuyEffectivePrice(sol_before, usdc_before, sol_after, usdc_after) ==
    LET sol_gained == sol_after - sol_before
        usdc_spent == usdc_before - usdc_after
    IN  IF sol_gained > 0 THEN Ratio(100 * usdc_spent, sol_gained) ELSE Ratio(0, 1)

\* trading.rs:295-297: effective_price = if sol_spent > 0.0
\* { usdc_gained / sol_spent } else { 0.0 }
SellEffectivePrice(sol_before, usdc_before, sol_after, usdc_after) ==
    LET usdc_gained == usdc_after - usdc_before
        sol_spent == sol_before - sol_after
    IN  IF sol_spent > 0 THEN Ratio(100 * usdc_gained, sol_spent) ELSE Ratio(0, 1)

SettleInit ==
    /\ t_in \in [position : Position,
                 last_sol_price : Option(SettlePrices \ {101}),
                 last_trade_price : Option(SettlePrices \ {101}),
                 sol_price_in_usdc : SettlePrices,
                 sol_before : SettleSol, usdc_before : SettleUsdc,
                 sol_after : SettleSol, usdc_after : SettleUsdc]
    /\ t_out = None

SettleIdle ==
    /\ t_in = << >>
    /\ t_out = None

exceptSettle == <<decVars, retryVars, cycleVars, rehVars, swapVars, concVars, reqVars, funVars, stepVars>>

\* The TradingState the settlement starts from
SettleState ==
    [NewState EXCEPT !.position = t_in.position,
                     !.last_sol_price = t_in.last_sol_price,
                     !.last_trade_price = t_in.last_trade_price]

\* trading.rs:219-268: the USDC -> SOL branch after the balances were read
SettleBuy ==
    /\ t_out = None
    /\ t_in.position = "USDC"
    /\ HasAmount("USDC", t_in.sol_before, t_in.usdc_before)
    /\ LET settled ==
             Settle(SettleState,
                    IF IsSome(t_in.last_sol_price)
                      THEN BuyProfit(Unwrap(t_in.last_sol_price), t_in.sol_before,
                                     t_in.usdc_before, t_in.sol_after, t_in.usdc_after)
                      ELSE 0)
       IN  t_out' = Some([effective_price |->
                              BuyEffectivePrice(t_in.sol_before, t_in.usdc_before,
                                                t_in.sol_after, t_in.usdc_after),
                          profit_loss |-> settled.profit_loss,
                          session |-> [position_before |-> "USDC",
                                       position_after |-> "SOL",
                                       price_at_trade |-> t_in.sol_price_in_usdc],
                          st |-> Commit(settled.st, settled.profit_loss, "SOL")])
    /\ UNCHANGED t_in
    /\ UNCHANGED exceptSettle

\* trading.rs:294-368: the SOL -> USDC branch after the balances were read
SettleSell ==
    /\ t_out = None
    /\ t_in.position = "SOL"
    /\ HasAmount("SOL", t_in.sol_before, t_in.usdc_before)
    /\ LET settled ==
             Settle(SettleState,
                    IF IsSome(t_in.last_sol_price)
                      THEN SellProfit(t_in.sol_price_in_usdc,
                                      Unwrap(t_in.last_sol_price),
                                      t_in.sol_before, t_in.sol_after)
                      ELSE 0)
       IN  t_out' = Some([effective_price |->
                              SellEffectivePrice(t_in.sol_before, t_in.usdc_before,
                                                 t_in.sol_after, t_in.usdc_after),
                          profit_loss |-> settled.profit_loss,
                          session |-> [position_before |-> "SOL",
                                       position_after |-> "USDC",
                                       price_at_trade |-> t_in.sol_price_in_usdc],
                          st |-> Commit(settled.st, settled.profit_loss, "USDC")])
    /\ UNCHANGED t_in
    /\ UNCHANGED exceptSettle

-----------------------------------------------------------------------------
(* One HTTP request of JupiterClient::get_quote or get_swap_transaction:
   retry_as_exponential_back_off around send(), then the status check and the
   reading of the body.  send() gives Err when no response arrives and
   Ok(response) for every response, whatever its status. *)

RequestRetries == 3        \* jupiter.rs: max_retries of "Quote request" and "Swap request"
RequestDelayMs == 500      \* jupiter.rs: initial_delay_ms of both

RequestKinds == {"quote", "swap"}
Statuses     == {200, 400, 404, 429, 500, 502, 503}
\* What send() meets: Err(e) with no response, or Ok(response) with a status.
NoResponse   == [response |-> FALSE, status |-> 0]
Response(s)  == [response |-> TRUE, status |-> s]
Answers      == {NoResponse} \cup {Response(s) : s \in Statuses}
Bodies       == {"json", "unreadable", "malformed"}

RequestOk     == [tag |-> "Ok", error |-> ""]
RequestErr(e) == [tag |-> "Err", error |-> e]

\* reqwest StatusCode::is_success
is_success(status) == status >= 200 /\ status <= 299

\* The statuses the retry policy names: rate limiting and server errors.
Retryable(status) == status = 429 \/ (status >= 500 /\ status <= 599)

RequestInit ==
    /\ q_kind \in RequestKinds
    /\ q_pc = "send"
    /\ q_attempt = 0
    /\ q_retry_delay = RequestDelayMs
    /\ q_answers = << >>
    /\ q_sleeps = << >>
    /\ q_result = None

RequestIdle ==
    /\ q_kind = "quote"
    /\ q_pc = "idle"
    /\ q_attempt = 0
    /\ q_retry_delay = RequestDelayMs
    /\ q_answers = << >>
    /\ q_sleeps = << >>
    /\ q_result = None

exceptRequest == <<decVars, retryVars, cycleVars, rehVars, swapVars, concVars, settleVars, funVars, stepVars>>

\* One pass of the retry loop: operation() is client.get/post(..).send().  An
\* Err sleeps when a retry is left and else returns; an Ok(response) returns
\* from the retry at once.
SendRequest ==
    /\ q_pc = "send"
    /\ \E a \in Answers :
         /\ q_answers' = Append(q_answers, a)
         /\ IF ~a.response
              THEN IF HasRetryLeft(q_attempt, RequestRetries)
                     THEN /\ q_sleeps' = Append(q_sleeps, q_retry_delay)
                          /\ q_pc' = "sleep"
                          /\ UNCHANGED q_result
                     ELSE /\ q_result' = Some(RequestErr("retry"))
                          /\ q_pc' = "err"
                          /\ UNCHANGED q_sleeps
              ELSE /\ q_pc' = "status"
                   /\ UNCHANGED <<q_sleeps, q_result>>
    /\ UNCHANGED <<q_kind, q_attempt, q_retry_delay>>
    /\ UNCHANGED exceptRequest

\* sleep(retry_delay).await; retry_delay *= 2; then the next attempt.
RequestBackoff ==
    /\ q_pc = "sleep"
    /\ q_attempt' = q_attempt + 1
    /\ q_retry_delay' = q_retry_delay * 2
    /\ q_pc' = "send"
    /\ UNCHANGED <<q_kind, q_answers, q_sleeps, q_result>>
    /\ UNCHANGED exceptRequest

\* if !status.is_success() { ...; anyhow::bail!(..) }
CheckStatus ==
    /\ q_pc = "status"
    /\ IF is_success(q_answers[Len(q_answers)].status)
         THEN /\ q_pc' = "body"
              /\ UNCHANGED q_result
         ELSE /\ q_result' = Some(RequestErr("status"))
              /\ q_pc' = "err"
    /\ UNCHANGED <<q_kind, q_attempt, q_retry_delay, q_answers, q_sleeps>>
    /\ UNCHANGED exceptRequest

\* response.text().await.context(..)?; serde_json::from_str(..).map_err(..)?
ReadBody ==
    /\ q_pc = "body"
    /\ \E b \in Bodies :
         IF b = "json"
           THEN /\ q_result' = Some(RequestOk)
                /\ q_pc' = "ok"
           ELSE /\ q_result' = Some(RequestErr(b))
                /\ q_pc' = "err"
    /\ UNCHANGED <<q_kind, q_attempt, q_retry_delay, q_answers, q_sleeps>>
    /\ UNCHANGED exceptRequest

-----------------------------------------------------------------------------
(* Single calls of functions on drawn inputs *)

FunctionIdle ==
    /\ f_in = << >>
    /\ f_out = None

exceptFunction == <<decVars, retryVars, cycleVars, rehVars, swapVars, concVars,
                    settleVars, reqVars, stepVars>>

-----------------------------------------------------------------------------
(* The amount handed to execute_swap: trading.rs:196-211 and 271-286.  The
   balances are f64: get_sol_balance returns lamports as f64 / 1e9
   (wallet.rs:51) and get_token_balance returns ui_amount, the raw amount
   as f64 / 1e6.  A balance is modelled by its raw integer amount, and the
   f64 expressions of the code are given by their binary64 values on the
   amounts drawn. *)

\* 0.01 SOL in lamports
ReserveLamports == 10000000

UsdcRaw == {0, 1, 2, 131069, 131070, 131071, 1000000, 100000000}
LamportsRaw == {0, 9999999, 10000000, 10000001, 10000002, 10000003, 1010000000,
                2010000000}

\* trading.rs:200: usdc_balance_before > 0.0
UsdcPositive(raw) == raw > 0

\* trading.rs:202: (usdc_balance_before * 1_000_000.0) as u64, the cast
\* truncating.  On UsdcRaw the product is the raw amount, except
\* 0.131069 * 1e6 = 131068.99999999999 and 0.13107 * 1e6 = 131069.99999999999.
UsdcAmount(raw) == IF raw \in {131069, 131070} THEN raw - 1 ELSE raw

\* trading.rs:275-276: sol_to_swap = sol_balance_before - 0.01;
\* sol_to_swap > 0.0.  On LamportsRaw the difference is positive exactly
\* when the balance exceeds the reserve.
SolToSwapPositive(lamports) == lamports > ReserveLamports

\* trading.rs:277: (sol_to_swap * 1_000_000_000.0) as u64, the cast
\* truncating.  On LamportsRaw the product is the balance less the reserve,
\* except (0.010000001 - 0.01) * 1e9 = 0.9999999994736442, and likewise one
\* lamport less for 0.010000002 and for 2.01.
LamportsAmount(lamports) ==
    IF lamports \in {10000001, 10000002, 2010000000}
      THEN lamports - ReserveLamports - 1
      ELSE lamports - ReserveLamports

NotCalled      == [called |-> FALSE, amount |-> 0]
Called(amount) == [called |-> TRUE, amount |-> amount]

AmountInit ==
    /\ f_in \in [position : {"USDC", "SOL"}, lamports : LamportsRaw, usdc : UsdcRaw]
    /\ f_out = None

\* trading.rs:197-211: Position::USDC
SwapFromUsdc ==
    /\ f_out = None
    /\ f_in.position = "USDC"
    /\ f_out' = Some(IF UsdcPositive(f_in.usdc)
                       THEN Called(UsdcAmount(f_in.usdc))
                       ELSE NotCalled)
    /\ UNCHANGED f_in
    /\ UNCHANGED exceptFunction

\* trading.rs:271-286: Position::SOL
SwapFromSol ==
    /\ f_out = None
    /\ f_in.position = "SOL"
    /\ f_out' = Some(IF SolToSwapPositive(f_in.lamports)
                       THEN Called(LamportsAmount(f_in.lamports))
                       ELSE NotCalled)
    /\ UNCHANGED f_in
    /\ UNCHANGED exceptFunction

-----------------------------------------------------------------------------
(* The historical prices of the trend: firestore.rs:417-430 (get_price_trend)
   and 464-487 (get_price_at_time).  A stored history is a function from the
   ages of its samples, in hours before now, to their prices; timestamps are
   distinct. *)

SampleAges   == {0, 2, 30, 200}
SamplePrices == {90, 100, 110}
\* chrono::Duration::hours(1), hours(24), days(7), in hours
Horizons == {1, 24, 168}

Histories == UNION {[ages -> SamplePrices] : ages \in SUBSET SampleAges}

\* The list request "?pageSize=1&orderBy=timestamp%20desc": the documents of
\* the first page, which holds the newest sample when there is one.
FirstPage(history) ==
    {a \in DOMAIN history : \A b \in DOMAIN history : a <= b}

\* firestore.rs:464-487: the first document of the page whose timestamp is
\* <= time (its age is at least the horizon), else None.
get_price_at_time(history, horizon) ==
    IF \E a \in FirstPage(history) : a >= horizon
      THEN Some(history[CHOOSE a \in FirstPage(history) : a >= horizon])
      ELSE None

HistoryInit ==
    /\ f_in \in [history : Histories]
    /\ f_out = None

\* firestore.rs:420-422: price_1h, price_24h, price_7d
GetPriceTrend ==
    /\ f_out = None
    /\ f_out' = Some([h \in Horizons |-> get_price_at_time(f_in.history, h)])
    /\ UNCHANGED f_in
    /\ UNCHANGED exceptFunction

-----------------------------------------------------------------------------
(* The prices of a cycle: trading.rs:376-404 (get_current_prices) and
   jupiter.rs:338-360 (get_price).  The amounts of a quote are integers of
   smallest units.  A price is a decimal number m * 10^(-e), kept with the
   least e; the divisions of the code are by powers of ten, so they add to e.
   The binary64 rounding of the quotients is left out. *)

\* 1 SOL in lamports is 10^9, 1 USDC in its smallest unit is 10^6
SolDecimals  == 9
UsdcDecimals == 6

\* out_amount of the quote of 1 SOL, in micro-USDC
UsdcOut == {0, 1, 90000000, 100000000, 101000000, 150250000}
\* out_amount of the quote of 1 USDC, in lamports
LamportsOut == {0, 1, 6655574, 9900990, 10000000, 11111111}

RECURSIVE Shorten(_, _)
Shorten(m, e) ==
    IF m = 0 THEN [m |-> 0, e |-> 0]
    ELSE IF e > 0 /\ m % 10 = 0 THEN Shorten(m \div 10, e - 1)
    ELSE [m |-> m, e |-> e]

\* m * 10^(-e)
Dec(m, e) == Shorten(m, e)

\* x / 10^k
DivPow10(x, k) == Dec(x.m, x.e + k)

\* jupiter.rs:338-360: out_amount / in_amount, the in_amount being zero (an
\* error) or the amount asked for, 10^decimals.
get_price(out_amount, in_zero, decimals) ==
    IF in_zero THEN None ELSE Some(Dec(out_amount, decimals))

\* trading.rs:397-398: sol_price / 1_000_000.0 and
\* usdc_price / 1_000_000_000.0
Adjust(price, decimals) == DivPow10(price, decimals)

PricesOk(sol, usdc) == [tag |-> "Ok", sol |-> sol, usdc |-> usdc]
PricesErr == [tag |-> "Err", sol |-> Dec(0, 0), usdc |-> Dec(0, 0)]

PricesInit ==
    /\ f_in \in [sol_out : UsdcOut, sol_in_zero : BOOLEAN,
                  usdc_out : LamportsOut, usdc_in_zero : BOOLEAN]
    /\ f_out = None

\* trading.rs:376-404: the two calls of get_price with ?, the adjustment
\* and Decimal::from_f64_retain of both.
GetCurrentPrices ==
    /\ f_out = None
    /\ LET sol_price  == get_price(f_in.sol_out, f_in.sol_in_zero, SolDecimals)
           usdc_price == get_price(f_in.usdc_out, f_in.usdc_in_zero, UsdcDecimals)
       IN  f_out' = Some(IF sol_price = None \/ usdc_price = None
                           THEN PricesErr
                           ELSE PricesOk(Adjust(Unwrap(sol_price), UsdcDecimals),
                                         Adjust(Unwrap(usdc_price), SolDecimals)))
    /\ UNCHANGED f_in
    /\ UNCHANGED exceptFunction

-----------------------------------------------------------------------------
(* The network steps of one check_and_trade, trading.rs:131-374, in the
   order of the code, each with its attempts.  A step is retried by
   retry_as_exponential_back_off (the quotes, the build and the submission,
   jupiter.rs) or by the loop of the balance reads (wallet.rs:40-97, of the
   same shape), or it is a fixed number of single requests, taken as one.  An attempt returns Ok, fails in
   a way the loop retries, or (hard) fails after the loop, as a response
   with an error status does.  A step that is not fatal has its error
   logged, and check_and_trade goes on. *)

\* wallet.rs: const MAX_RETRIES: u32 = 3
BalanceRetries == 3

Retried(name, max, hard) == [name |-> name, max |-> max, hard |-> hard, fatal |-> TRUE]
Single(name, fatal)      == [name |-> name, max |-> 1, hard |-> FALSE, fatal |-> fatal]

StepList ==
    << Retried("get_price: quote of 1 SOL", RequestRetries, TRUE),
       Retried("get_price: quote of 1 USDC", RequestRetries, TRUE),
       Single("store_price_history", FALSE),
       Retried("get_sol_balance before", BalanceRetries, FALSE),
       Retried("get_token_balance before", BalanceRetries, FALSE),
       Single("get_price_trend", FALSE),
       Retried("execute_swap: get_quote", RequestRetries, TRUE),
       Retried("execute_swap: get_swap_transaction", RequestRetries, TRUE),
       Single("execute_swap: decode", TRUE),
       Single("execute_swap: get_latest_blockhash", TRUE),
       Retried("execute_swap: send_and_confirm_transaction", SubmitRetries, FALSE),
       Retried("get_sol_balance after", BalanceRetries, FALSE),
       Retried("get_token_balance after", BalanceRetries, FALSE),
       Single("store_trading_session", FALSE),
       Single("store_profit_tracking", FALSE) >>

\* The step after which should_trade is decided
TrendStep == 6

CurrentStep == StepList[k_step]

StepsInit ==
    /\ k_step = 1
    /\ k_pc = "attempt"
    /\ k_attempt = 0
    /\ k_sends = [i \in DOMAIN StepList |-> 0]
    /\ k_result = None

StepsIdle ==
    /\ k_step = 1
    /\ k_pc = "off"
    /\ k_attempt = 0
    /\ k_sends = << >>
    /\ k_result = None

exceptSteps == <<decVars, retryVars, cycleVars, rehVars, swapVars, concVars,
                 settleVars, reqVars, funVars>>

\* check_and_trade returns r.
Return(r) ==
    /\ k_pc' = "returned"
    /\ k_result' = Some(r)
    /\ UNCHANGED <<k_step, k_attempt>>

\* The step is over and check_and_trade goes on: to the next step, to
\* return Ok(None) when should_trade is false (trading.rs:192-194), or to
\* return Ok(profit) after the last step.
GoOn ==
    IF k_step = Len(StepList)
      THEN \E r \in {"Ok(Some)", "Ok(None)"} : Return(r)
      ELSE \/ /\ k_step' = k_step + 1
              /\ k_attempt' = 0
              /\ UNCHANGED <<k_pc, k_result>>
           \/ /\ k_step = TrendStep
              /\ Return("Ok(None)")

Count == k_sends' = [k_sends EXCEPT ![k_step] = @ + 1]

\* An attempt returns Ok.
AttemptOk ==
    /\ k_pc = "attempt"
    /\ Count
    /\ GoOn
    /\ UNCHANGED exceptSteps

\* An attempt returns an error or times out: the loop sleeps when a retry
\* is left; else the step has failed, which returns Err from check_and_trade
\* when the step is fatal.
AttemptErr ==
    /\ k_pc = "attempt"
    /\ Count
    /\ IF HasRetryLeft(k_attempt, CurrentStep.max)
         THEN /\ k_pc' = "sleep"
              /\ UNCHANGED <<k_step, k_attempt, k_result>>
         ELSE IF CurrentStep.fatal THEN Return("Err") ELSE GoOn
    /\ UNCHANGED exceptSteps

\* The attempt returns a response that fails the step after the loop
\* (jupiter.rs:167-172 and 234-239, an error status; 174-182 and 241-250, the
\* body).
AttemptRejected ==
    /\ k_pc = "attempt"
    /\ CurrentStep.hard
    /\ Count
    /\ Return("Err")
    /\ UNCHANGED exceptSteps

\* sleep(retry_delay).await ends and the loop takes the next attempt; past
\* the range the loop is left and unreachable!() panics.
StepBackoff ==
    /\ k_pc = "sleep"
    /\ k_attempt' = k_attempt + 1
    /\ k_pc' = IF InRange(k_attempt + 1, CurrentStep.max) THEN "attempt" ELSE "panic"
    /\ UNCHANGED <<k_step, k_sends, k_result>>
    /\ UNCHANGED exceptSteps

-----------------------------------------------------------------------------
(* The specifications *)

InitDecision == DecisionInit /\ RetryIdle /\ CycleIdle /\ RehydrateIdle /\ SwapIdle /\ ConcurrentIdle /\ SettleIdle /\ RequestIdle /\ FunctionIdle /\ StepsIdle
NextDecision == CallShouldMakeTrade \/ CallShouldMakeTradeSimple
SpecDecision == InitDecision /\ [][NextDecision]_vars

InitRetry == DecisionIdle /\ RetryInit /\ CycleIdle /\ RehydrateIdle /\ SwapIdle /\ ConcurrentIdle /\ SettleIdle /\ RequestIdle /\ FunctionIdle /\ StepsIdle
NextRetry == LoopHead \/ OpOk \/ OpErr \/ OpTimeout \/ SleepDone
SpecRetry == InitRetry /\ [][NextRetry]_vars

Init == DecisionIdle /\ RetryIdle /\ CycleInit /\ RehydrateIdle /\ SwapIdle /\ ConcurrentIdle /\ SettleIdle /\ RequestIdle /\ FunctionIdle /\ StepsIdle
Next ==
    \/ ConfigFail \/ Trigger \/ GetPrices \/ ReadBalances \/ Decide
    \/ ExecuteSwap \/ PostSwap \/ Notify
Spec == Init /\ [][Next]_vars

InitRehydrate == DecisionIdle /\ RetryIdle /\ RehydrateInit /\ SwapIdle /\ ConcurrentIdle /\ SettleIdle /\ RequestIdle /\ FunctionIdle /\ StepsIdle
NextRehydrate == Rehydrate
SpecRehydrate == InitRehydrate /\ [][NextRehydrate]_vars

InitSwap == DecisionIdle /\ RetryIdle /\ CycleIdle /\ RehydrateIdle /\ SwapInit /\ ConcurrentIdle /\ SettleIdle /\ RequestIdle /\ FunctionIdle /\ StepsIdle
NextSwap ==
    \/ NewBlock \/ CallExecuteSwap \/ GetQuote \/ GetSwapTransaction \/ Decode
    \/ GetLatestBlockhash \/ SignTransaction \/ SubmitAttempt
SpecSwap == InitSwap /\ [][NextSwap]_vars

InitConcurrent ==
    /\ DecisionIdle /\ RetryIdle /\ CycleIdle /\ RehydrateIdle /\ SwapIdle
    /\ ConcurrentInit /\ SettleIdle /\ RequestIdle /\ FunctionIdle /\ StepsIdle
NextConcurrent ==
    \/ TriggerTrade \/ LoadState \/ ReadBalancesBefore \/ DecideTrade
    \/ SubmitSwap \/ ReadBalancesAfter
SpecConcurrent == InitConcurrent /\ [][NextConcurrent]_vars

InitSettle ==
    /\ DecisionIdle /\ RetryIdle /\ CycleIdle /\ RehydrateIdle /\ SwapIdle
    /\ ConcurrentIdle /\ SettleInit /\ RequestIdle /\ FunctionIdle /\ StepsIdle
NextSettle == SettleBuy \/ SettleSell
SpecSettle == InitSettle /\ [][NextSettle]_vars

InitRequest ==
    /\ DecisionIdle /\ RetryIdle /\ CycleIdle /\ RehydrateIdle /\ SwapIdle
    /\ ConcurrentIdle /\ SettleIdle /\ RequestInit /\ FunctionIdle /\ StepsIdle
NextRequest == SendRequest \/ RequestBackoff \/ CheckStatus \/ ReadBody
SpecRequest == InitRequest /\ [][NextRequest]_vars

InitAmount ==
    /\ DecisionIdle /\ RetryIdle /\ CycleIdle /\ RehydrateIdle /\ SwapIdle
    /\ ConcurrentIdle /\ SettleIdle /\ RequestIdle /\ AmountInit /\ StepsIdle
NextAmount == SwapFromUsdc \/ SwapFromSol
SpecAmount == InitAmount /\ [][NextAmount]_vars

InitHistory ==
    /\ DecisionIdle /\ RetryIdle /\ CycleIdle /\ RehydrateIdle /\ SwapIdle
    /\ ConcurrentIdle /\ SettleIdle /\ RequestIdle /\ HistoryInit /\ StepsIdle
NextHistory == GetPriceTrend
SpecHistory == InitHistory /\ [][NextHistory]_vars

InitPrices ==
    /\ DecisionIdle /\ RetryIdle /\ CycleIdle /\ RehydrateIdle /\ SwapIdle
    /\ ConcurrentIdle /\ SettleIdle /\ RequestIdle /\ PricesInit /\ StepsIdle
NextPrices == GetCurrentPrices
SpecPrices == InitPrices /\ [][NextPrices]_vars

\* Every attempt returns or times out and every sleep ends, so a step that
\* can be taken is taken.
InitSteps ==
    /\ DecisionIdle /\ RetryIdle /\ CycleIdle /\ RehydrateIdle /\ SwapIdle
    /\ ConcurrentIdle /\ SettleIdle /\ RequestIdle /\ FunctionIdle /\ StepsInit
NextSteps == AttemptOk \/ AttemptErr \/ AttemptRejected \/ StepBackoff
SpecSteps == InitSteps /\ [][NextSteps]_vars /\ WF_vars(NextSteps)

-----------------------------------------------------------------------------
(* Properties of the trade decision, under SpecDecision *)

\* C2: the trade decision never fires when last_trade_price is absent, for
\* every current price and both positions, in should_make_trade and in
\* should_make_trade_simple.
C2_NoTradeWithoutLastTradePrice ==
    d_last_trade_price = None =>
        /\ d_trade # Some(TRUE)
        /\ d_simple # Some(TRUE)

\* Scenario A: holding USDC, no last trade price, current price 100.00.
C2_Witness ==
    /\ d_position = "USDC"
    /\ d_last_trade_price = None
    /\ d_sol_price = 10000
    /\ d_trade = Some(FALSE)
    /\ d_simple = Some(FALSE)

\* C3: with last_trade_price present the decision is true exactly when
\* current_price >= last_trade_price * 1.01 (100 * price >= 101 * last), in
\* both functions, and it is the decision taken for the other position too.
C3_FiresIffThreshold ==
    IsSome(d_last_trade_price) =>
        LET fires == 100 * d_sol_price >= 101 * Unwrap(d_last_trade_price)
            other == Flip(d_position)
        IN  /\ IsSome(d_trade) =>
                 /\ Unwrap(d_trade) = fires
                 /\ Unwrap(d_trade) = should_make_trade(other, d_trend, d_sol_price,
                                                        d_last_trade_price)
            /\ IsSome(d_simple) =>
                 /\ Unwrap(d_simple) = fires
                 /\ Unwrap(d_simple) = should_make_trade_simple(other, d_sol_price,
                                                                d_last_trade_price)

\* Scenario B: holding USDC, last trade price 100.00, current price 101.00:
\* the trade fires exactly at the threshold.
C3_Witness ==
    /\ d_position = "USDC"
    /\ d_last_trade_price = Some(10000)
    /\ d_sol_price = 10100
    /\ d_trade = Some(TRUE)
    /\ d_simple = Some(TRUE)

-----------------------------------------------------------------------------
(* Properties of retry_as_exponential_back_off, under SpecRetry *)

RECURSIVE Pow2(_)
Pow2(n) == IF n <= 0 THEN 1 ELSE 2 * Pow2(n - 1)

\* initial_delay, 2 * initial_delay, 4 * initial_delay, ...: n durations
Backoff(initial_delay, n) == [i \in 1..n |-> initial_delay * Pow2(i - 1)]

Failed(o) == o.kind \in {"err", "timeout"}

\* C4: when every attempt fails, the operation was invoked exactly
\* max_retries times and sleep was called exactly max_retries - 1 times, with
\* initial_delay, 2 * initial_delay, 4 * initial_delay, ... in that order.
C4_ExhaustionCallsAndSleeps ==
    r_pc = "err" =>
        /\ \A i \in 1..Len(r_outcomes) : Failed(r_outcomes[i])
        /\ r_calls = r_max_retries
        /\ Len(r_sleeps) = r_max_retries - 1
        /\ r_sleeps = Backoff(r_initial_delay, r_max_retries - 1)

\* Three failed attempts with an initial delay of 500 ms: sleeps of 500 and 1000.
C4_Witness ==
    /\ r_pc = "err"
    /\ r_max_retries = 3
    /\ r_initial_delay = 500
    /\ r_calls = 3
    /\ r_sleeps = <<500, 1000>>

\* C5: the operation is invoked at most max_retries times; the first attempt
\* that succeeds ends the call with that attempt's value: every attempt before
\* it failed, and no invocation and no sleep follows it.
C5_FirstSuccessEndsCall ==
    /\ r_calls <= r_max_retries
    /\ r_pc = "ok" =>
         LET n == Len(r_outcomes)
         IN  /\ n >= 1
             /\ r_outcomes[n].kind = "ok"
             /\ \A i \in 1..(n - 1) : Failed(r_outcomes[i])
             /\ r_result = Some(OkResult(r_outcomes[n].v))
             /\ r_calls = n
             /\ Len(r_sleeps) = n - 1
             /\ ~ENABLED NextRetry

\* A success on the second attempt, after one failure and one sleep.
C5_Witness ==
    /\ r_pc = "ok"
    /\ r_calls = 2
    /\ Len(r_sleeps) = 1
    /\ r_max_retries = 3
    /\ r_result = Some(OkResult("v2"))

\* C6: an attempt that timed out is handled as a failed attempt is: it is one
\* of the max_retries attempts; when it is not the last one the same sleep
\* follows (initial_delay * 2^(i-1) after attempt i) and the delay is doubled
\* before attempt i + 1; when it is the last one the call ends with a failure.
C6_TimeoutIsAFailedAttempt ==
    \A i \in 1..Len(r_outcomes) :
        r_outcomes[i].kind = "timeout" =>
            /\ r_timeout
            /\ i <= r_max_retries
            /\ r_calls >= i
            /\ IF i < r_max_retries
                 THEN /\ Len(r_sleeps) >= i
                      /\ r_sleeps[i] = r_initial_delay * Pow2(i - 1)
                      /\ Len(r_outcomes) = i =>
                           \/ /\ r_pc = "sleep"
                              /\ r_attempt = i - 1
                              /\ r_retry_delay = r_initial_delay * Pow2(i - 1)
                           \/ /\ r_pc \in {"loop", "await"}
                              /\ r_attempt = i
                              /\ r_retry_delay = r_initial_delay * Pow2(i)
                 ELSE /\ r_pc = "err"
                      /\ Len(r_sleeps) = i - 1
                      /\ IsSome(r_result) /\ Unwrap(r_result).tag = "Err"

\* Three attempts that all time out: two sleeps, then the failure.
C6_Witness ==
    /\ r_pc = "err"
    /\ r_max_retries = 3
    /\ \A i \in 1..3 : r_outcomes[i].kind = "timeout"
    /\ r_sleeps = <<500, 1000>>

\* C7: the failure returned on exhaustion carries the operation name, the
\* number of attempts made and the last error: the error of the final attempt,
\* or a timeout when the final attempt timed out.
C7_ExhaustionError ==
    r_pc = "err" =>
        LET res  == Unwrap(r_result)
            last == r_outcomes[Len(r_outcomes)]
        IN  /\ IsSome(r_result)
            /\ res.tag = "Err"
            /\ res.name = r_name
            /\ res.attempts = r_calls
            /\ last.kind = "err" => res.kind = "error" /\ res.last = last.v
            /\ last.kind = "timeout" => res.kind = "timeout" /\ res.last = "timeout"

\* Three failures, the first with e1 and the last with e2: e2 is reported.
C7_Witness ==
    /\ r_pc = "err"
    /\ r_max_retries = 3
    /\ r_outcomes[1] = ErrOutcome("e1")
    /\ r_outcomes[3] = ErrOutcome("e2")
    /\ Unwrap(r_result).last = "e2"
    /\ Unwrap(r_result).attempts = 3

-----------------------------------------------------------------------------
(* Properties of the decision cycle, under Spec *)

Returned == pc \in {"notify", "done"} /\ IsSome(result)
ReturnedOk  == Returned /\ Unwrap(result).tag = "Ok"
ReturnedErr == Returned /\ Unwrap(result).tag = "Err"

\* C1: in every reachable TradingState, after every executed trade,
\* winning_trades + losing_trades <= total_trades.
C1_WinsAndLossesWithinTotal ==
    state.winning_trades + state.losing_trades <= state.total_trades

\* C8: the position differs from the one the cycle started with only once
\* check_and_trade has returned Ok after a confirmed swap, and then it is the
\* other asset; until then, and in every cycle without a confirmed swap, it
\* is the position the cycle started with.
C8_PositionChangesOnlyAfterSwap ==
    /\ state.position \in Position
    /\ state.position # state0.position =>
         /\ swapped
         /\ ReturnedOk
         /\ state.position = Flip(state0.position)
    /\ (ReturnedOk /\ swapped) => state.position = Flip(state0.position)

\* A cycle that bought SOL: it started holding USDC and ends holding SOL.
C8_Witness ==
    /\ pc = "done"
    /\ swapped
    /\ state0.position = "USDC"
    /\ state.position = "SOL"

\* C9: when check_and_trade returns an error, every field of TradingState has
\* the value it had when check_and_trade was entered.
C9_ErrorLeavesStateUnchanged ==
    ReturnedErr => state = state0

\* The read of the token balance after a confirmed swap fails.
C9_Witness ==
    /\ pc = "notify"
    /\ swapped
    /\ Unwrap(result) = ErrRes("get_token_balance")
    /\ state = state0
    /\ IsSome(state.last_trade_price)

\* The summaries (trade or error texts) among the messages sent in the cycle
Summaries == SelectSeq(sent, LAMBDA m : m.kind \in {"trade", "error"})

\* C10, as claimed: every cycle in which check_and_trade returned sends
\* exactly one summary, for a trade, a no-op and an error alike.
C10_OneSummaryPerCycle ==
    (pc = "done" /\ IsSome(result)) => Len(Summaries) = 1

\* C10, amended: a cycle whose check_and_trade returned a profit or an error
\* sends exactly one summary, the error's one carrying the error text; a
\* cycle whose check_and_trade returned None sends no summary.
C10_OneSummaryUnlessNone ==
    (pc = "done" /\ IsSome(result)) =>
        LET r == Unwrap(result)
        IN  /\ (r.tag = "Ok" /\ IsSome(r.profit)) =>
                   /\ Len(Summaries) = 1
                   /\ Summaries[1].kind = "trade"
            /\ (r.tag = "Ok" /\ r.profit = None) => Len(Summaries) = 0
            /\ r.tag = "Err" =>
                   /\ Len(Summaries) = 1
                   /\ Summaries[1] = ErrorMessage(r.error)

\* A cycle that failed in execute_swap and sent the error text.
C10_Witness ==
    /\ pc = "done"
    /\ IsSome(result)
    /\ Unwrap(result).tag = "Err"
    /\ Unwrap(result).error = "get_quote"
    /\ sent = <<ErrorMessage("get_quote")>>


-----------------------------------------------------------------------------
(* Properties of rehydration, under SpecRehydrate *)

\* What the rehydration saw: the reads that were Ok, and the record each read
\* returned (None when the database was not created, the read failed or the
\* collection is empty).
Reads == Unwrap(h_reads)
Rehydrated == Unwrap(h_state)
SessionRead == IF Reads.db /\ Reads.session THEN db_session ELSE None
ProfitRead  == IF Reads.db /\ Reads.profit THEN db_profit ELSE None
PriceRead   == IF Reads.db /\ Reads.price THEN db_price ELSE None

C17_DefaultsWithoutRecords ==
    (/\ IsSome(h_state)
     /\ \/ ~Reads.db
        \/ db_session = None /\ db_profit = None /\ db_price = None)
    => /\ Rehydrated.position = "USDC"
       /\ Rehydrated.last_trade_price = None
       /\ Rehydrated.total_profit_usdc = 0
       /\ Rehydrated.total_trades = 0
       /\ Rehydrated.winning_trades = 0
       /\ Rehydrated.losing_trades = 0

\* An empty store was read without error and rehydrated.
C17_Witness ==
    /\ IsSome(h_state)
    /\ Reads.db /\ Reads.session /\ Reads.profit /\ Reads.price
    /\ db_session = None /\ db_profit = None /\ db_price = None
    /\ Rehydrated.position = "USDC"

\* C18: rehydration always yields a state; the fields of each of the three
\* reads are the read's record when it returned one and the defaults when it
\* failed or returned nothing, whatever the other two reads did.
C18_ReadsAreIndependent ==
    IsSome(h_state) =>
        /\ IF IsSome(SessionRead)
             THEN Rehydrated.last_trade_price = Some(Unwrap(SessionRead).price_at_trade)
             ELSE /\ Rehydrated.position = "USDC"
                  /\ Rehydrated.last_trade_price = None
        /\ IF IsSome(ProfitRead)
             THEN /\ Rehydrated.total_profit_usdc = Unwrap(ProfitRead).cumulative_profit_usdc
                  /\ Rehydrated.total_trades = Unwrap(ProfitRead).total_trades
                  /\ Rehydrated.winning_trades = Unwrap(ProfitRead).winning_trades
                  /\ Rehydrated.losing_trades = Unwrap(ProfitRead).losing_trades
             ELSE /\ Rehydrated.total_profit_usdc = 0
                  /\ Rehydrated.total_trades = 0
                  /\ Rehydrated.winning_trades = 0
                  /\ Rehydrated.losing_trades = 0
        /\ IF IsSome(PriceRead)
             THEN /\ Rehydrated.last_sol_price = Some(Unwrap(PriceRead).sol_price_usdc)
                  /\ Rehydrated.last_usdc_price = Some(Unwrap(PriceRead).usdc_price_sol)
             ELSE /\ Rehydrated.last_sol_price = None
                  /\ Rehydrated.last_usdc_price = None

\* The read of the latest session failed although the store holds one; the
\* profit record and the price sample were loaded all the same.
C18_Witness ==
    /\ IsSome(h_state)
    /\ Reads.db /\ ~Reads.session /\ IsSome(db_session)
    /\ IsSome(ProfitRead) /\ IsSome(PriceRead)
    /\ Rehydrated.position = "USDC"
    /\ Rehydrated.total_trades = Unwrap(db_profit).total_trades
    /\ Rehydrated.last_sol_price = Some(Unwrap(db_price).sol_price_usdc)


-----------------------------------------------------------------------------
(* Properties of persistence and accounting across cycles, under Spec *)

\* The state a rehydration of the store as it is now yields when the database
\* is created and all three reads succeed.
NextRehydration == load_from_firestore(NewState, db_session, db_profit, db_price)

\* C15: once a cycle with a confirmed swap has ended, whether check_and_trade
\* returned Ok or an error and whether the writes to the store succeeded, the
\* state the next cycle rehydrates has the position the swap produced, which
\* is the asset the wallet holds.
C15_PositionRecoveredAfterSwap ==
    (pc = "done" /\ swapped) => NextRehydration.position = held

\* C19: a cycle that executed a trade ends with total_trades one higher than
\* it started with; a cycle that executed none ends with it unchanged.
C19_EveryTradeCounted ==
    /\ (ReturnedOk /\ swapped) => state.total_trades = state0.total_trades + 1
    /\ (Returned /\ ~swapped) => state.total_trades = state0.total_trades

\* C20: a cycle that settled a trade with a defined profit p ends with the
\* cumulative profit it started with plus p.
C20_CumulativeProfitAdds ==
    (ReturnedOk /\ swapped /\ IsSome(Unwrap(result).profit)) =>
        state.total_profit_usdc =
            state0.total_profit_usdc + Unwrap(Unwrap(result).profit)


-----------------------------------------------------------------------------
(* Properties of one trade decision and its swap, under SpecSwap *)

\* The submission attempts that put the transaction on the chain although
\* they were reported as an error or as a timeout
LandedUnreported ==
    {i \in DOMAIN s_submitted :
        s_submitted[i].landed /\ s_submitted[i].report # "ok"}

\* C11: a trade decision calls execute_swap at most once; every submission
\* attempt of that call carries the same signed transaction (instructions,
\* blockhash, signature); the chain executes at most one transaction.
C11_OneSwapPerDecision ==
    /\ s_calls <= 1
    /\ \A i, j \in DOMAIN s_submitted :
         /\ s_submitted[i].tx = s_submitted[j].tx
         /\ s_submitted[i].tx.signed
    /\ Len(s_executed) <= 1

\* The first attempt put the transaction on the chain and was reported as
\* failed, a block was produced, and the transaction was submitted again.
C11_Witness ==
    /\ Len(s_submitted) >= 2
    /\ 1 \in LandedUnreported
    /\ s_tip > s_submitted[1].tx.blockhash
    /\ Len(s_executed) = 1

\* C13: whenever a transaction was submitted, the steps before it succeeded
\* in the order quote, build, decode, blockhash, sign; the transaction carries
\* the blockhash fetched at the blockhash step, which is no older than the
\* tip at the build, and the signature.  When execute_swap fails at one of
\* these steps, nothing was submitted and nothing was executed.
C13_SubmitAfterAllSteps ==
    /\ s_submitted # << >> =>
         /\ s_steps = <<"quote", "build", "decode", "blockhash", "sign">>
         /\ \A i \in DOMAIN s_submitted :
              /\ s_submitted[i].tx.signed
              /\ s_submitted[i].tx.blockhash = Unwrap(s_fetched)
              /\ s_submitted[i].tx.blockhash >= Unwrap(s_built).at
              /\ s_submitted[i].tx.instructions = Unwrap(s_built).instructions
    /\ (s_pc = "err" /\ Unwrap(s_result).step # "submit") =>
         /\ s_submitted = << >>
         /\ s_executed = << >>
         /\ Len(s_steps) < 5

\* The provider built the transaction on a blockhash older than the tip, and
\* the transaction was submitted with the tip fetched afterwards.
C13_Witness ==
    /\ s_submitted # << >>
    /\ Unwrap(s_built).blockhash < Unwrap(s_built).at
    /\ s_submitted[1].tx.blockhash > Unwrap(s_built).blockhash

\* C14: when an attempt put the transaction on the chain but was reported as
\* failed or timed out, and the submission was retried, execute_swap returns
\* Ok with the transaction's signature.
C14_RetryOfIncludedSucceeds ==
    (/\ s_pc \in {"ok", "err"}
     /\ \E i \in LandedUnreported : i < Len(s_submitted))
    => /\ s_pc = "ok"
       /\ Unwrap(s_result) = SwapOk(s_submitted[1].tx)


-----------------------------------------------------------------------------
(* Properties of concurrent triggers, under SpecConcurrent *)

\* The tasks whose decision cycle is in progress
InProgress == {t \in Tasks : c_pc[t] \notin {"idle", "done"}}

\* C12: at most one decision cycle is in progress at any time, and no task
\* reads balances or submits a swap while another task is between its
\* balance reads before the trade and those after it.
C12_CyclesNeverInterleave ==
    /\ Cardinality(InProgress) <= 1
    /\ ~c_overlap


-----------------------------------------------------------------------------
(* Properties of settlement and of the records of a cycle, under Spec *)

\* C21: the profit of an executed trade is None exactly when the cycle had no
\* last_trade_price; with a last_trade_price the profit is defined.
C21_ProfitUndefinedIffNoLastTradePrice ==
    (ReturnedOk /\ swapped) =>
        (Unwrap(result).profit = None <=> state0.last_trade_price = None)

\* C24: a cycle with a confirmed swap hands exactly one trading session to the
\* store, and a cycle without one hands none.
C24_OneSessionPerSwap ==
    /\ (Returned /\ swapped) => handed.session = 1
    /\ ~swapped => handed.session = 0


\* The cycle obtained two valid prices from get_current_prices.
Priced ==
    \/ pc \in {"balances", "decide", "swap", "after"}
    \/ /\ Returned
       /\ ~(ReturnedErr /\ Unwrap(result).error \in {"get_current_prices", "Invalid price"})

\* C25 as stated: every decision cycle has handed exactly one price sample to
\* the store by the time the decision is taken and when it ends.
C25_OneSamplePerCycle ==
    pc \in {"decide", "done"} => handed.price = 1

\* C25, amended: a cycle that obtained valid prices and has a store has handed
\* exactly one price sample by the time the decision is taken, whether or not
\* a trade fires; a cycle whose prices are missing or invalid, or that has no
\* store, hands none.
C25_OneSampleWhenPriced ==
    handed.price = IF Priced /\ firestore THEN 1 ELSE 0

\* A cycle with a store handed its price sample and ended without a trade.
C25_Witness ==
    /\ pc = "done"
    /\ firestore
    /\ ReturnedOk
    /\ ~swapped
    /\ handed.price = 1

\* C26: a cycle whose confirmed swap reached the session write returns Ok with
\* the trade's profit and the flipped position whatever the writes did, and no
\* cycle ever returns the error of a write.
C26_WriteFailureKeepsTrade ==
    /\ (Returned /\ swapped /\ handed.session = 1) =>
         /\ ReturnedOk
         /\ state.position = Flip(state0.position)
         /\ IsSome(Unwrap(result).profit) <=> IsSome(state0.last_sol_price)
    /\ (pc = "balances" /\ firestore) => handed.price = 1
    /\ ReturnedErr => Unwrap(result).error \notin {"store", "store_price_history"}

\* A sale whose price sample, trading session and profit record were all
\* handed to the store and none written: the store still has the session and
\* the sample of earlier cycles and no profit record.
C26_Witness ==
    /\ ReturnedOk
    /\ swapped
    /\ handed = [price |-> 1, session |-> 1, profit |-> 1]
    /\ IsSome(db_session) /\ Unwrap(db_session).position_after = state0.position
    /\ db_profit = None
    /\ IsSome(db_price) /\ Unwrap(db_price).sol_price_usdc # sol_price_in_usdc
    /\ state.position = Flip(state0.position)
    /\ IsSome(Unwrap(result).profit)

\* The decision a cycle reaches with the threshold alone: the swap is called
\* when should_make_trade_simple fires and there is an amount to swap.
ThresholdOnlyFires ==
    /\ should_make_trade_simple(state0.position, sol_price_in_usdc,
                                state0.last_trade_price)
    /\ HasAmount(state0.position, sol_balance_before, usdc_balance_before)

\* The cycle went on from the decision to execute_swap.
ReachedSwap ==
    \/ pc \in {"swap", "after"}
    \/ swapped
    \/ /\ ReturnedErr
       /\ Unwrap(result).error \in SwapSteps \cup {"send_and_confirm_transaction"}

\* C27: once get_price_trend has returned, with a trend or with an error, the
\* cycle has gone on to execute_swap exactly when the threshold-only decision
\* fires, and otherwise has returned Ok(None); an error of get_price_trend is
\* never the error of the cycle.
C27_TrendFailureFallsBack ==
    trend_result \in {"ok", "err"} =>
        /\ ReachedSwap <=> ThresholdOnlyFires
        /\ ~ThresholdOnlyFires => (Returned /\ Unwrap(result) = OkRes(None))
        /\ ReturnedErr => Unwrap(result).error # "get_price_trend"

\* get_price_trend failed and the cycle went on to a confirmed swap.
C27_Witness ==
    /\ trend_result = "err"
    /\ swapped
    /\ ReturnedOk


-----------------------------------------------------------------------------
(* Agreement of the two decision functions, under SpecDecision *)

\* C28: on the same position, price, last_trade_price and trend snapshot,
\* should_make_trade returns what should_make_trade_simple returns.
C28_TrendAwareEqualsSimple ==
    (IsSome(d_trade) /\ IsSome(d_simple)) => d_trade = d_simple

\* Both functions fired on a buy with a falling one-hour trend.
C28_Witness ==
    /\ d_position = "USDC"
    /\ d_trend = Some("down")
    /\ d_trade = Some(TRUE)
    /\ d_simple = Some(TRUE)


-----------------------------------------------------------------------------
(* Properties of the settlement, under SpecSettle *)

\* The amounts the balance deltas give for the settled swap
SolSpent   == t_in.sol_before - t_in.sol_after
UsdcGained == t_in.usdc_after - t_in.usdc_before
UsdcSpent  == t_in.usdc_before - t_in.usdc_after
Settled    == Unwrap(t_out)

\* C22: a sale of a positive amount with a last_trade_price and a defined
\* profit has profit = (realized price - last_trade_price) * amount, the
\* realized price being USDC gained / SOL spent; in hundredths of a USDC that
\* is 100 * USDC gained - last_trade_price * SOL spent (in hundredths).
C22_SellProfitFromRealizedPrice ==
    (/\ IsSome(t_out)
     /\ t_in.position = "SOL"
     /\ IsSome(t_in.last_trade_price)
     /\ IsSome(Settled.profit_loss)
     /\ SolSpent > 0)
    => Unwrap(Settled.profit_loss) =
           100 * UsdcGained - Unwrap(t_in.last_trade_price) * SolSpent

\* C23: in both directions, when the amount spent that the balance deltas give
\* is zero or negative, the realized price is zero, and the settlement is
\* carried out.
C23_ZeroPriceWhenNothingSpent ==
    IsSome(t_out) =>
        /\ (t_in.position = "USDC" /\ UsdcSpent <= 0) => Settled.effective_price.num = 0
        /\ (t_in.position = "SOL" /\ SolSpent <= 0) => Settled.effective_price.num = 0
        /\ Settled.effective_price.den > 0
        /\ Settled.st.position = Flip(t_in.position)


-----------------------------------------------------------------------------
(* Properties of the quote and build requests, under SpecRequest *)

LastAnswer == q_answers[Len(q_answers)]

\* The request function has returned an error on an answer of 429 or 5xx.
FailedOnRetryable ==
    /\ q_pc = "err"
    /\ q_answers # << >>
    /\ LastAnswer.response
    /\ Retryable(LastAnswer.status)

\* C29: a quote or build request answered with HTTP 429 or a 5xx status is
\* retried with backoff like a connection-level failure: it fails only after
\* RequestRetries sends, with a sleep between each two of them.
C29_RetryableStatusIsRetried ==
    FailedOnRetryable =>
        /\ Len(q_answers) = RequestRetries
        /\ Len(q_sleeps) = RequestRetries - 1

-----------------------------------------------------------------------------
(* Properties of the decoding in execute_swap, under SpecSwap *)

BuiltPayload == Unwrap(s_built).payload

Tried(decoder) == \E k \in DOMAIN s_tried : s_tried[k] = decoder

\* The payload decodes as versioned but cannot be converted to legacy, or it
\* decodes as neither versioned nor legacy.
Undecodable(f) ==
    f.base64 /\ ((f.versioned /\ ~f.convertible) \/ (~f.versioned /\ ~f.legacy))

\* C30: once execute_swap has decoded the payload, the versioned decoder was
\* tried before the legacy one and the legacy one only when the versioned one
\* failed; a payload that is versioned and not convertible to legacy, or
\* that is neither, has ended execute_swap with an error, with no blockhash
\* fetched, nothing signed and nothing submitted.
C30_VersionedFirstElseError ==
    s_tried # << >> =>
        /\ BuiltPayload.base64 => (Len(s_tried) >= 2 /\ s_tried[2] = "versioned")
        /\ Tried("legacy") <=> (BuiltPayload.base64 /\ ~BuiltPayload.versioned)
        /\ Tried("legacy") => s_tried = <<"base64", "versioned", "legacy">>
        /\ Undecodable(BuiltPayload) =>
              /\ s_pc = "err"
              /\ s_result = Some(SwapErr("decode"))
              /\ s_fetched = None
              /\ s_tx = None
              /\ s_submitted = << >>
              /\ s_executed = << >>

\* execute_swap has ended on a versioned transaction that also decodes as a
\* legacy one and cannot be converted.
C30_Witness ==
    /\ s_pc = "err"
    /\ s_tried = <<"base64", "versioned", "into_legacy">>
    /\ BuiltPayload.versioned /\ ~BuiltPayload.convertible /\ BuiltPayload.legacy
    /\ s_result = Some(SwapErr("decode"))

-----------------------------------------------------------------------------
(* Properties of the transaction that execute_swap signs, under SpecSwap *)

Built == Unwrap(s_built)

\* C31: the local transaction, from its decoding on, carries the instructions
\* of the transaction the build step returned; its blockhash is the one the
\* provider set until the blockhash step and the fetched one afterwards; and
\* every transaction submitted is that transaction, signed.
C31_OnlyBlockhashModified ==
    /\ IsSome(s_tx) =>
          /\ Unwrap(s_tx).instructions = Built.instructions
          /\ Unwrap(s_tx).blockhash =
                (IF IsSome(s_fetched) THEN Unwrap(s_fetched) ELSE Built.blockhash)
    /\ \A i \in DOMAIN s_submitted :
          /\ s_submitted[i].tx.signed
          /\ s_submitted[i].tx = Unwrap(s_tx)
          /\ s_submitted[i].tx.instructions = Built.instructions

\* A transaction built on the second route with an older blockhash was
\* signed and submitted with the fetched blockhash.
C31_Witness ==
    /\ s_submitted # << >>
    /\ Built.instructions = "route2"
    /\ s_submitted[1].tx.instructions = "route2"
    /\ s_submitted[1].tx.blockhash # Built.blockhash
    /\ s_submitted[1].tx.signed

-----------------------------------------------------------------------------
(* Properties of the amount swapped, under SpecAmount *)

AmountOut == Unwrap(f_out)

\* C32: the amount handed to execute_swap is the whole USDC balance when
\* holding USDC and the SOL balance less the reserve of 0.01 SOL when holding
\* SOL; when that amount is not positive, execute_swap is not called.
C32_WholeBalanceLessReserve ==
    IsSome(f_out) =>
        LET amount == IF f_in.position = "USDC" THEN f_in.usdc
                      ELSE f_in.lamports - ReserveLamports
        IN  IF amount > 0
              THEN AmountOut.called /\ AmountOut.amount = amount
              ELSE ~AmountOut.called

-----------------------------------------------------------------------------
(* Properties of the historical prices, under SpecHistory *)

\* The samples of the history that are at least as old as the horizon
OldEnough(history, horizon) == {a \in DOMAIN history : a >= horizon}

\* The most recent of them
MostRecent(ages) == CHOOSE a \in ages : \A b \in ages : a <= b

\* C33: for each horizon the historical price is the price of the most recent
\* stored sample that is at least that old, and it is absent only when no
\* stored sample is that old.
C33_MostRecentSampleBeforeHorizon ==
    IsSome(f_out) =>
        \A h \in Horizons :
            LET old == OldEnough(f_in.history, h)
            IN  Unwrap(f_out)[h] =
                  (IF old = {} THEN None ELSE Some(f_in.history[MostRecent(old)]))

-----------------------------------------------------------------------------
(* Properties of the prices, under SpecPrices *)

\* C34: when get_current_prices returns prices, the SOL price is the
\* micro-USDC returned for 1 SOL divided by 1_000_000, and the USDC price is
\* the lamports returned for 1 USDC divided by 1_000_000_000.
C34_PricesInWholeUnits ==
    (IsSome(f_out) /\ Unwrap(f_out).tag = "Ok") =>
        /\ Unwrap(f_out).sol = Dec(f_in.sol_out, UsdcDecimals)
        /\ Unwrap(f_out).usdc = Dec(f_in.usdc_out, SolDecimals)

-----------------------------------------------------------------------------
(* Properties of the rehydrated trade price, under SpecSettle *)

\* trading.rs:75: self.last_trade_price = Some(latest_session.price_at_trade),
\* read from the session this trade stores.
RehydratedTradePrice == Settled.session.price_at_trade

\* C35: the last_trade_price rehydrated from the session of a trade is the
\* realized price of the trade, the price its balance deltas give.
C35_RehydratedPriceIsRealized ==
    IsSome(t_out) =>
        RehydratedTradePrice * Settled.effective_price.den
            = Settled.effective_price.num

-----------------------------------------------------------------------------
(* Properties of the first trade, under Spec *)

\* The SOL prices of a run of cycles
PriceRuns == [1..MaxCycles -> SolPrices]

\* The TradingState check_and_trade receives in cycle k of a run in which no
\* cycle before k has traded: the store holds no trading session and no
\* profit record, and its latest price sample is that of cycle k - 1.
StartOf(run, k) ==
    load_from_firestore(NewState, None, None,
                        IF k = 1 THEN None
                        ELSE Some([sol_price_usdc |-> run[k - 1],
                                   usdc_price_sol |-> 1]))

\* The decision of cycle k fires, for some trend.
FiresAt(run, k) ==
    \E trend \in Trends :
        \/ should_make_trade(StartOf(run, k).position, trend, run[k],
                             StartOf(run, k).last_trade_price)
        \/ should_make_trade_simple(StartOf(run, k).position, run[k],
                                    StartOf(run, k).last_trade_price)

\* C36: from the start with no trade record in the store, some run of cycles
\* and prices reaches a cycle whose decision fires, so that a first trade is
\* executed.
C36_FirstTradeReachable ==
    (cycles = 0 /\ db_session = None) =>
        \E run \in PriceRuns : \E k \in 1..MaxCycles : FiresAt(run, k)

\* In every cycle that confirms a swap, the state handed to check_and_trade
\* had a last_trade_price, and a cycle has one only from a stored session.
NoTradeWithoutRecord ==
    /\ swapped => IsSome(state0.last_trade_price)
    /\ (pc \notin {"idle", "done"} /\ IsSome(state0.last_trade_price)) => firestore

-----------------------------------------------------------------------------
(* Properties of the value check_and_trade returns, under Spec *)

\* C37: when check_and_trade returns Ok, the value is None exactly when no
\* swap was confirmed in the cycle.
C37_NoneIffNoSwap ==
    (IsSome(result) /\ Unwrap(result).tag = "Ok") =>
        (Unwrap(result).profit = None <=> ~swapped)

-----------------------------------------------------------------------------
(* Properties of the profit record, under Spec *)

\* check_and_trade has returned the defined profit of a confirmed swap, with
\* a store configured.
SettledWithProfit ==
    /\ pc = "notify"
    /\ swapped
    /\ firestore
    /\ IsSome(result)
    /\ Unwrap(result).tag = "Ok"
    /\ IsSome(Unwrap(result).profit)

\* C38: every executed trade with a defined profit, whichever its direction,
\* hands one profit record to the store.
C38_ProfitRecordBothDirections ==
    SettledWithProfit => handed.profit = 1

-----------------------------------------------------------------------------
(* Properties of the end of the retry, under SpecRetry *)

\* C39: for every max_retries, zero included, the retry never reaches the
\* unreachable!() after the loop, and max_retries - 1 is never computed for
\* max_retries = 0.
C39_NeverUnreachable ==
    /\ r_pc # "panic"
    /\ r_calls > 0 => r_max_retries > 0

-----------------------------------------------------------------------------
(* Properties of the termination of a cycle, under SpecSteps *)

\* No step has made more attempts than its retry allows, three at most.
AttemptsBounded ==
    \A i \in DOMAIN StepList :
        /\ k_sends[i] <= StepList[i].max
        /\ k_sends[i] <= 3

\* C40: every step of check_and_trade makes at most three attempts, and
\* check_and_trade eventually returns a result.
C40_CycleTerminates ==
    /\ [](AttemptsBounded /\ k_pc # "panic")
    /\ <>(k_pc = "returned" /\ IsSome(k_result))

\* check_and_trade has returned after a quote, a balance read and the
\* submission each took three attempts.
C40_Witness ==
    /\ k_pc = "returned"
    /\ k_result = Some("Ok(Some)")
    /\ k_sends[1] = 3
    /\ k_sends[4] = 3
    /\ k_sends[11] = 3
=============================================================================
